---- MODULE Spec2Model ----
(***************************************************************************)
(* Ledger store of the bot (src/database.py): the users, redeem_codes and  *)
(* redeem_logs tables of one SQLite database in WAL mode, and the          *)
(* operations that read and write them.  Every operation opens its own     *)
(* connection; a process of the model is one call running on one           *)
(* connection, and a step is one SQL statement (or the Python code that    *)
(* follows it up to the next statement).                                   *)
(*                                                                         *)
(* Two handlers of the bot (src/main.py) are modelled on top of the        *)
(* store, the bulk gift and the lookup (process_api_call), and the two     *)
(* pure helpers parse_time_string and log_lookup's truncation, on strings  *)
(* taken as sequences of characters.                                       *)
(*                                                                         *)
(* Time is counted in whole minutes.  A timestamp is the minute at which   *)
(* it was taken.                                                           *)
(***************************************************************************)
EXTENDS Integers, FiniteSets, Sequences, TLC

\* ---------------------------------------------------------------- bounds
MaxUser == 2
MaxCode == 1
NProcs == 2
MaxTime == 2
MaxEarned == 4
MaxDebt == 1
MaxCalls == 4
MaxBulk == 2
MaxLookups == 2
MaxText == 3

UserIds == 1..MaxUser
CodeIds == 1..MaxCode
Procs == 1..NProcs

\* inputs the callers supply
Amounts == {2}
MaxUsesSet == {1, 2}
ExpirySet == {0, 1}
Deltas == {-6, 0, 2}

\* time zones of the host: local time minus UTC
TzOffsets == {-1, 0, 1}

\* the same, with a host further west than the longest expiry window
CreateZones == TzOffsets \cup {-MaxTime}

\* amounts and use limits an admin may type, valid or not
AmountInputs == {0} \cup Amounts
MaxUsesInputs == {0} \cup MaxUsesSet

\* ------------------------------------------------------- program constants
START_CREDITS == 5
REFERRAL_BONUS == 3
OWNER_ID == 0
BATCH_LIMIT == 50
INPUT_LIMIT == 500
RESULT_LIMIT == 2000

\* a created_date that is no ISO timestamp (the column is TEXT; this program
\* writes datetime.now().isoformat() only, so such a value comes from another
\* writer of the database file)
Malformed == -99

\* datetime.fromisoformat(created_date) raises ValueError
fromisoformat_raises(created_date) == created_date = Malformed

\* ------------------------------------------------------------------ tables
\* users row; present = FALSE stands for "no row with this user_id"
NoUser == [present |-> FALSE, credits |-> 0, total_earned |-> 0,
           last_active |-> 0, referrer_id |-> 0, is_banned |-> FALSE]

\* redeem_codes row; expiry_minutes = 0 stands for NULL as well as for 0
NoCode == [present |-> FALSE, amount |-> 0, max_uses |-> 0, current_uses |-> 0,
           expiry_minutes |-> 0, created_date |-> 0, is_active |-> FALSE]

\* variant: the referrer is not stored
NewUserRow_no_referrer(r, t) ==
    [present |-> TRUE, credits |-> START_CREDITS, total_earned |-> 0,
     last_active |-> t, referrer_id |-> 0, is_banned |-> FALSE]

\* INSERT INTO users (user_id, username, credits, joined_date, referrer_id,
\* last_active) VALUES (?, ?, 5, now, ?, now); total_earned DEFAULT 0
NewUserRow(r, t) ==
    [present |-> TRUE, credits |-> START_CREDITS, total_earned |-> 0,
     last_active |-> t, referrer_id |-> r, is_banned |-> FALSE]

\* lookup_logs holds its rows in the order of their autoincrement id
EmptyDb == [users |-> [u \in UserIds |-> NoUser],
            codes |-> [c \in CodeIds |-> NoCode],
            logs |-> {},
            lookups |-> <<>>,
            admins |-> {}]

NoCall == [op |-> "none", user_id |-> 0, code |-> 0, amount |-> 0,
           max_uses |-> 0, expiry_minutes |-> 0, referrer_id |-> 0,
           user_ids |-> <<>>, admin |-> FALSE, input_data |-> <<>>,
           result |-> <<>>, data |-> <<>>, member |-> FALSE]

\* what a call returns: its kind, a number where it returns one, and the
\* message where it returns a (flag, message) pair
NoResult == [kind |-> "none", amount |-> 0, msg |-> ""]

Res(kind, amount) == [kind |-> kind, amount |-> amount, msg |-> ""]

ResMsg(kind, msg) == [kind |-> kind, amount |-> 0, msg |-> msg]

VARIABLES
    db,        \* the committed database: [users, codes, logs]
    now,       \* the time in UTC, in minutes
    tz,        \* the host's time zone: local time minus UTC, in minutes
    RENDER,    \* the bot runs on the hosting platform (environment RENDER=true)
    chat,      \* per user: the conversation state the bot keeps (FSM state and
               \* data) and the kinds of message the bot has sent to the user
    writer,    \* the process holding SQLite's write lock, 0 when free
    pc,        \* per process: position inside its current call
    call,      \* per process: the call it runs and its arguments
    snap,      \* per process: the read snapshot of its open transaction
    work,      \* per process: snapshot plus its own uncommitted writes
    stale,     \* per process: a commit has landed since the snapshot
    chk,       \* per process: datetime.now() read by the expiry check
    result,    \* per process: the value the call returned
    calls,     \* number of calls started so far
    wins,      \* history: credited redemptions of each code row since creation
    credited,  \* history: credited redemptions per (user, code string)
    dead,      \* history: the code string has had a row with is_active = 0
    owed,      \* history: per user, sum of the deltas given to update_credits
    owedPos,   \* history: per user, sum of the positive deltas
    seen       \* history, per process: what held when the call took its snapshot
               \* (full: the code was used up; dead: it had been inactive;
               \* late: its expiry window had elapsed on the host's clock)

vars == <<db, now, tz, RENDER, chat, writer, pc, call, snap, work, stale, chk, result,
          calls, wins, credited, dead, owed, owedPos, seen>>

procvars == <<pc, call, snap, work, stale, chk, result, seen>>
hist == <<wins, credited, dead, owed, owedPos>>

NotSeen == [full |-> FALSE, dead |-> FALSE, late |-> FALSE]

\* The users registered before the calls under study start: each was added by
\* add_user(user_id, name, None) at minute 0.
Registered(n) ==
    [EmptyDb EXCEPT !.users = [u \in UserIds |->
                                 IF u <= n THEN NewUserRow(0, 0) ELSE NoUser]]

\* a user the bot holds no conversation state for and has told nothing
NoChat == [state |-> "none", api_type |-> "none", told |-> {}]

\* no call has started yet
Quiet ==
    /\ now = 0
    /\ chat = [u \in UserIds |-> NoChat]
    /\ calls = 0
    /\ writer = 0
    /\ pc = [p \in Procs |-> "idle"]
    /\ call = [p \in Procs |-> NoCall]
    /\ snap = [p \in Procs |-> EmptyDb]
    /\ work = [p \in Procs |-> EmptyDb]
    /\ stale = [p \in Procs |-> FALSE]
    /\ chk = [p \in Procs |-> 0]
    /\ result = [p \in Procs |-> NoResult]
    /\ wins = [c \in CodeIds |-> 0]
    /\ credited = [u \in UserIds |-> [c \in CodeIds |-> 0]]
    /\ dead = [c \in CodeIds |-> FALSE]
    /\ owed = [u \in UserIds |-> 0]
    /\ owedPos = [u \in UserIds |-> 0]
    /\ seen = [p \in Procs |-> NotSeen]

Started == (\E n \in 1..MaxUser : db = Registered(n)) /\ Quiet

\* the users registered so far, some of them in the admins table (add_admin
\* inserts the users row of an admin who has none)
WithAdmins(n, A) == [Registered(n) EXCEPT !.admins = A]

\* a host whose local time is UTC
Init == tz = 0 /\ RENDER = FALSE /\ Started

\* the bot after the owner has added admins
InitAdmins ==
    /\ tz = 0
    /\ RENDER = FALSE
    /\ \E n \in 1..MaxUser : \E A \in SUBSET (1..n) : db = WithAdmins(n, A)
    /\ Quiet

\* the bot with a first user whose balance is the starting balance or 1 and
\* a second who may be an admin
LowBalances(n) ==
    {[WithAdmins(n, A) EXCEPT !.users[1].credits = b] :
       b \in {1, START_CREDITS}, A \in {{}, {n} \ {1}}}

InitBalances ==
    /\ tz = 0
    /\ RENDER = FALSE
    /\ \E n \in 1..MaxUser : db \in LowBalances(n)
    /\ Quiet

\* a host in any time zone
InitZones == tz \in TzOffsets /\ RENDER = FALSE /\ Started

\* a host in any time zone, far west included
InitCreate == tz \in CreateZones /\ RENDER = FALSE /\ Started

\* a host in UTC, on the hosting platform or not
InitRender == tz = 0 /\ RENDER \in BOOLEAN /\ Started

\* a host in UTC whose users table may still be empty
InitUsers == tz = 0 /\ RENDER = FALSE /\ (\E n \in 0..MaxUser : db = Registered(n)) /\ Quiet

\* datetime.now(): the local time of the host, without zone
datetime_now == now + tz

\* ----------------------------------------------------- SQLite transactions
\* A commit that changes the database makes every other open snapshot stale.
MarkStale(p, newdb) ==
    [q \in Procs |-> IF q # p /\ pc[q] # "idle" /\ newdb # db THEN TRUE ELSE stale[q]]

\* A transaction that has only read so far asks for the write lock.  SQLite
\* refuses at once (SQLITE_BUSY, "database is locked") when another connection
\* holds the lock or has committed since the snapshot was taken; the busy
\* timeout does not apply to the upgrade of a read transaction.
CanUpgrade(p) == writer = 0 /\ ~stale[p]

\* A connection with no open transaction starts its write statement as soon
\* as the write lock is free (it waits for it under the busy timeout) and
\* works on the latest committed state.
CanWrite(p) == writer = 0

\* a call starts: the number of calls of a run is bounded
Budget == calls < MaxCalls /\ calls' = calls + 1

Finish(p, r) ==
    /\ pc' = [pc EXCEPT ![p] = "done"]
    /\ result' = [result EXCEPT ![p] = r]

\* db.commit() / COMMIT: the connection's writes become the committed state.
commit(p) ==
    /\ pc[p] \in {"commit"}
    /\ writer = p
    /\ db' = work[p]
    /\ writer' = 0
    /\ stale' = MarkStale(p, work[p])
    /\ pc' = [pc EXCEPT ![p] = "done"]
    /\ wins' = IF call[p].op \in {"create_redeem_code", "delete_redeem_code"}
               THEN [wins EXCEPT ![call[p].code] = 0]
               ELSE wins
    /\ dead' = [c \in CodeIds |-> dead[c] \/ (work[p].codes[c].present
                                               /\ ~work[p].codes[c].is_active)]
    /\ UNCHANGED <<calls, now, tz, RENDER, chat, call, snap, work, chk, result, credited, owed, owedPos,
                   seen>>

\* The caller has the returned value; the connection is closed.
Return(p) ==
    /\ pc[p] = "done"
    /\ pc' = [pc EXCEPT ![p] = "idle"]
    /\ call' = [call EXCEPT ![p] = NoCall]
    /\ snap' = [snap EXCEPT ![p] = EmptyDb]
    /\ work' = [work EXCEPT ![p] = EmptyDb]
    /\ stale' = [stale EXCEPT ![p] = FALSE]
    /\ chk' = [chk EXCEPT ![p] = 0]
    /\ result' = [result EXCEPT ![p] = NoResult]
    /\ seen' = [seen EXCEPT ![p] = NotSeen]
    /\ UNCHANGED <<calls, db, now, tz, RENDER, chat, writer, hist>>

Tick ==
    /\ now < MaxTime
    /\ now' = now + 1
    /\ UNCHANGED <<calls, db, tz, RENDER, chat, writer, procvars, hist>>

\* ------------------------------------------------------------------ add_user
\* variant: an existing row is replaced (INSERT OR REPLACE without the check)
add_user_check_replaces(p, v, r) ==
    /\ pc[p] = "idle"
    /\ Budget
    /\ call' = [call EXCEPT ![p] = [NoCall EXCEPT !.op = "add_user",
                                    !.user_id = v, !.referrer_id = r]]
    /\ IF db.users[v].present
       THEN /\ Finish(p, Res("False", 0))
            /\ db' = [db EXCEPT !.users[v] = NewUserRow(r, datetime_now)]
       ELSE /\ pc' = [pc EXCEPT ![p] = IF r # 0 THEN "au_referrer" ELSE "au_insert"]
            /\ UNCHANGED <<result, db>>
    /\ UNCHANGED <<now, tz, RENDER, chat, writer, snap, work, stale, chk, hist, seen>>

\* add_user(user_id, username, referrer_id): referrer_id = 0 is None.
\* First statement: SELECT user_id FROM users WHERE user_id = ?
add_user_check(p, v, r) ==
    /\ pc[p] = "idle"
    /\ Budget
    /\ call' = [call EXCEPT ![p] = [NoCall EXCEPT !.op = "add_user",
                                    !.user_id = v, !.referrer_id = r]]
    /\ IF db.users[v].present
       THEN Finish(p, Res("False", 0))
       ELSE /\ pc' = [pc EXCEPT ![p] = IF r # 0 THEN "au_referrer" ELSE "au_insert"]
            /\ UNCHANGED result
    /\ UNCHANGED <<db, now, tz, RENDER, chat, writer, snap, work, stale, chk, hist, seen>>

\* if referrer_id: SELECT user_id FROM users WHERE user_id = referrer_id
add_user_referrer(p) ==
    /\ pc[p] = "au_referrer"
    /\ snap' = [snap EXCEPT ![p] = db]
    /\ pc' = [pc EXCEPT ![p] = IF db.users[call[p].referrer_id].present
                               THEN "au_bonus" ELSE "au_insert"]
    /\ UNCHANGED <<calls, db, now, tz, RENDER, chat, writer, call, work, stale, chk, result, hist, seen>>

\* variant: the bonus is added to the balance only
ReferrerBonus_credits_only(row, t) ==
    [row EXCEPT !.credits = @ + REFERRAL_BONUS, !.last_active = t]

\* The referrer's row after the bonus UPDATE and the last_active trigger.
ReferrerBonus(row, t) ==
    [row EXCEPT !.credits = @ + REFERRAL_BONUS,
                !.total_earned = @ + REFERRAL_BONUS,
                !.last_active = t]

\* the users table after the bonus UPDATE of a call that found its referrer
\* (the UPDATE changes no row when the referrer has been deleted meanwhile)
AfterBonus(p) ==
    LET r == call[p].referrer_id
    IN  IF pc[p] = "au_bonus" /\ db.users[r].present
        THEN [db.users EXCEPT ![r] = ReferrerBonus(@, now)]
        ELSE db.users

\* variant: the failed INSERT leaves the bonus in the database
add_user_insert_keeps_bonus(p) ==
    LET v == call[p].user_id
        r == call[p].referrer_id
        u1 == AfterBonus(p)
    IN  /\ pc[p] \in {"au_bonus", "au_insert"}
        /\ CanWrite(p)
        /\ IF u1[v].present
           THEN /\ Finish(p, Res("False", 0))
                /\ db' = [db EXCEPT !.users = u1]
                /\ UNCHANGED <<work, writer>>
           ELSE /\ \A w \in UserIds : u1[w].total_earned <= MaxEarned
                /\ work' = [work EXCEPT ![p] =
                        [db EXCEPT !.users =
                            [u1 EXCEPT ![v] = NewUserRow(r, datetime_now)]]]
                /\ writer' = p
                /\ pc' = [pc EXCEPT ![p] = "commit"]
                /\ result' = [result EXCEPT ![p] = Res("True", 0)]
                /\ UNCHANGED db
        /\ UNCHANGED <<calls, now, tz, RENDER, chat, call, snap, stale, chk, hist, seen>>

\* UPDATE users (the bonus) and INSERT INTO users: one implicit transaction,
\* opened by the first of the two statements.  A user_id inserted meanwhile
\* by another call fails the INSERT on the primary key; the connection closes
\* without commit, which rolls the bonus back, and the call returns False.
add_user_insert(p) ==
    LET v == call[p].user_id
        r == call[p].referrer_id
        u1 == AfterBonus(p)
    IN  /\ pc[p] \in {"au_bonus", "au_insert"}
        /\ CanWrite(p)
        /\ IF u1[v].present
           THEN /\ Finish(p, Res("False", 0))
                /\ UNCHANGED <<work, writer>>
           ELSE /\ \A w \in UserIds : u1[w].total_earned <= MaxEarned
                /\ work' = [work EXCEPT ![p] =
                        [db EXCEPT !.users =
                            [u1 EXCEPT ![v] = NewUserRow(r, datetime_now)]]]
                /\ writer' = p
                /\ pc' = [pc EXCEPT ![p] = "commit"]
                /\ result' = [result EXCEPT ![p] = Res("True", 0)]
        /\ UNCHANGED <<calls, db, now, tz, RENDER, chat, call, snap, stale, chk, hist, seen>>

\* --------------------------------------------------------------- delete_user
\* DELETE FROM users WHERE user_id = ?   (this connection never sets PRAGMA
\* foreign_keys, so neither ON DELETE SET NULL on users.referrer_id nor
\* ON DELETE CASCADE on redeem_logs acts)
delete_user(p, u) ==
    /\ pc[p] = "idle"
    /\ Budget
    /\ CanWrite(p)
    /\ call' = [call EXCEPT ![p] = [NoCall EXCEPT !.op = "delete_user", !.user_id = u]]
    /\ snap' = [snap EXCEPT ![p] = db]
    /\ work' = [work EXCEPT ![p] = [db EXCEPT !.users[u] = NoUser]]
    /\ writer' = p
    /\ pc' = [pc EXCEPT ![p] = "commit"]
    /\ result' = [result EXCEPT ![p] = Res("True", 0)]
    /\ UNCHANGED <<db, now, tz, RENDER, chat, stale, chk, hist, seen>>

\* ------------------------------------------------------------ set_ban_status
\* UPDATE users SET is_banned = ?, last_active = ? WHERE user_id = ?
set_ban_status(p, u, status) ==
    /\ pc[p] = "idle"
    /\ Budget
    /\ CanWrite(p)
    /\ call' = [call EXCEPT ![p] = [NoCall EXCEPT !.op = "set_ban_status",
                                    !.user_id = u]]
    /\ snap' = [snap EXCEPT ![p] = db]
    /\ work' = [work EXCEPT ![p] =
                  IF db.users[u].present
                  THEN [db EXCEPT !.users[u] =
                          [@ EXCEPT !.is_banned = status, !.last_active = datetime_now]]
                  ELSE db]
    /\ writer' = p
    /\ pc' = [pc EXCEPT ![p] = "commit"]
    /\ result' = [result EXCEPT ![p] = Res("True", 0)]
    /\ UNCHANGED <<db, now, tz, RENDER, chat, stale, chk, hist, seen>>

\* -------------------------------------------------------- reset_user_credits
\* variant: the reset also clears the lifetime counter
ResetRow_clears_earned(row, t) ==
    [row EXCEPT !.credits = 0, !.total_earned = 0, !.last_active = t]

\* UPDATE users SET credits = 0, last_active = ? WHERE user_id = ?
\* (the last_active trigger then stamps the row with datetime('now'))
ResetRow(row, t) ==
    [row EXCEPT !.credits = 0, !.last_active = t]

reset_user_credits(p, u) ==
    /\ pc[p] = "idle"
    /\ Budget
    /\ CanWrite(p)
    /\ call' = [call EXCEPT ![p] = [NoCall EXCEPT !.op = "reset_user_credits",
                                    !.user_id = u]]
    /\ snap' = [snap EXCEPT ![p] = db]
    /\ work' = [work EXCEPT ![p] =
                  IF db.users[u].present
                  THEN [db EXCEPT !.users[u] = ResetRow(@, now)]
                  ELSE db]
    /\ writer' = p
    /\ pc' = [pc EXCEPT ![p] = "commit"]
    /\ result' = [result EXCEPT ![p] = Res("True", 0)]
    /\ UNCHANGED <<db, now, tz, RENDER, chat, stale, chk, hist, seen>>

\* ------------------------------------------------------------ update_credits
\* variant: the balance is assigned instead of incremented
CreditedRow_assign(row, d, t) ==
    IF d > 0
    THEN [row EXCEPT !.credits = d, !.total_earned = @ + d, !.last_active = t]
    ELSE [row EXCEPT !.credits = d, !.last_active = t]

\* variant: a debit stops at a balance of 0
CreditedRow_floored(row, d, t) ==
    IF d > 0
    THEN [row EXCEPT !.credits = @ + d, !.total_earned = @ + d, !.last_active = t]
    ELSE [row EXCEPT !.credits = IF @ + d < 0 THEN 0 ELSE @ + d, !.last_active = t]

\* UPDATE users SET credits = credits + ?, [total_earned = total_earned + ?,]
\* last_active = ? WHERE user_id = ?
CreditedRow(row, d, t) ==
    IF d > 0
    THEN [row EXCEPT !.credits = @ + d, !.total_earned = @ + d, !.last_active = t]
    ELSE [row EXCEPT !.credits = @ + d, !.last_active = t]

update_credits(p, u, d) ==
    /\ pc[p] = "idle"
    /\ Budget
    /\ CanWrite(p)
    /\ db.users[u].present =>
          /\ db.users[u].credits + d >= 0 - MaxDebt
          /\ d > 0 => db.users[u].total_earned + d <= MaxEarned
    /\ call' = [call EXCEPT ![p] = [NoCall EXCEPT !.op = "update_credits",
                                    !.user_id = u, !.amount = d]]
    /\ snap' = [snap EXCEPT ![p] = db]
    /\ work' = [work EXCEPT ![p] =
                  IF db.users[u].present
                  THEN [db EXCEPT !.users[u] = CreditedRow(@, d, now)]
                  ELSE db]
    /\ writer' = p
    /\ pc' = [pc EXCEPT ![p] = "commit"]
    /\ result' = [result EXCEPT ![p] = Res("True", 0)]
    /\ owed' = [owed EXCEPT ![u] = @ + d]
    /\ owedPos' = [owedPos EXCEPT ![u] = IF d > 0 THEN @ + d ELSE @]
    /\ UNCHANGED <<db, now, tz, RENDER, chat, stale, chk, wins, credited, dead, seen>>

\* ------------------------------------------------------ bulk_update_credits
\* for user_id in user_ids: the same UPDATE as update_credits, one per list
\* element, inside one transaction
RECURSIVE BulkUsers(_, _, _, _)
BulkUsers(users, ids, d, t) ==
    IF ids = <<>>
    THEN users
    ELSE LET u == Head(ids)
             next == IF users[u].present
                     THEN [users EXCEPT ![u] = CreditedRow(@, d, t)]
                     ELSE users
         IN  BulkUsers(next, Tail(ids), d, t)

\* the user_ids lists the admin handler passes on
BulkLists == UNION {[1..n -> UserIds] : n \in 0..MaxBulk}

\* BEGIN TRANSACTION; the UPDATEs; COMMIT follows in commit(p)
bulk_update_credits(p, ids, d) ==
    /\ pc[p] = "idle"
    /\ Budget
    /\ CanWrite(p)
    /\ \A u \in UserIds :
          LET row == BulkUsers(db.users, ids, d, now)[u]
          IN  row.credits >= 0 - MaxDebt /\ row.total_earned <= MaxEarned
    /\ call' = [call EXCEPT ![p] = [NoCall EXCEPT !.op = "bulk_update_credits",
                                    !.amount = d]]
    /\ snap' = [snap EXCEPT ![p] = db]
    /\ work' = [work EXCEPT ![p] =
                  [db EXCEPT !.users = BulkUsers(db.users, ids, d, now)]]
    /\ writer' = p
    /\ pc' = [pc EXCEPT ![p] = "commit"]
    /\ result' = [result EXCEPT ![p] = Res("True", 0)]
    /\ UNCHANGED <<db, now, tz, RENDER, chat, stale, chk, hist, seen>>

\* a list of one more user id than the batch limit: the first names user 1,
\* the others user MaxUser
BigBatch == [i \in 1..(BATCH_LIMIT + 1) |-> IF i = 1 THEN 1 ELSE MaxUser]

\* what the admin may send: the amount followed by the user ids
GiftLists == BulkLists \cup {BigBatch}

\* handle_inputs, state waiting_for_bulk_gift: parse "AMOUNT USERID1 ...",
\* refuse a long list when RENDER is set, then call bulk_update_credits and
\* report; any exception is reported as an error message.
handle_inputs_bulk_gift(p, ids, d) ==
    /\ pc[p] = "idle"
    /\ Budget
    /\ call' = [call EXCEPT ![p] = [NoCall EXCEPT !.op = "bulk_update_credits",
                                    !.amount = d, !.user_ids = ids]]
    /\ IF Len(ids) = 0
       THEN /\ Finish(p, ResMsg("error", "Format: AMOUNT USERID1 USERID2 ..."))
            /\ UNCHANGED <<snap, work, writer>>
       ELSE IF RENDER /\ Len(ids) > BATCH_LIMIT
       THEN /\ Finish(p, ResMsg("refused", "Maximum 50 users at once"))
            /\ UNCHANGED <<snap, work, writer>>
       ELSE /\ CanWrite(p)
            /\ \A u \in UserIds :
                  LET row == BulkUsers(db.users, ids, d, now)[u]
                  IN  row.credits >= 0 - MaxDebt /\ row.total_earned <= MaxEarned
            /\ snap' = [snap EXCEPT ![p] = db]
            /\ work' = [work EXCEPT ![p] =
                          [db EXCEPT !.users = BulkUsers(db.users, ids, d, now)]]
            /\ writer' = p
            /\ pc' = [pc EXCEPT ![p] = "commit"]
            /\ result' = [result EXCEPT ![p] = Res("True", 0)]
    /\ UNCHANGED <<db, now, tz, RENDER, chat, stale, chk, hist, seen>>

\* -------------------------------------------------------- create_redeem_code
\* variant: the window is tested whatever expiry_minutes holds
SqlExpired_any_window(row, t) ==
    /\ row.present
    /\ row.created_date + row.expiry_minutes < t

\* datetime(created_date, '+' || expiry_minutes || ' minutes') < datetime('now');
\* datetime() of a text that is no timestamp is NULL, and the row is not selected
SqlExpired(row, t) ==
    /\ row.present
    /\ row.expiry_minutes > 0
    /\ row.created_date # Malformed
    /\ row.created_date + row.expiry_minutes < t

\* trigger cleanup_expired_codes AFTER INSERT ON redeem_codes
cleanup_trigger(codes, t) ==
    [c \in CodeIds |-> IF SqlExpired(codes[c], t)
                       THEN [codes[c] EXCEPT !.is_active = FALSE]
                       ELSE codes[c]]

NewCodeRow(amount, max_uses, expiry, t) ==
    [present |-> TRUE, amount |-> amount, max_uses |-> max_uses,
     current_uses |-> 0, expiry_minutes |-> expiry, created_date |-> t,
     is_active |-> TRUE]

\* SELECT code FROM redeem_codes WHERE code = ?, then the input validation;
\* u and data name the handler that makes the call (0 and <<>> for none)
create_redeem_code_from(p, u, data, c, amount, max_uses, expiry) ==
    /\ pc[p] = "idle"
    /\ Budget
    /\ call' = [call EXCEPT ![p] = [NoCall EXCEPT !.op = "create_redeem_code",
                    !.user_id = u, !.data = data,
                    !.code = c, !.amount = amount, !.max_uses = max_uses,
                    !.expiry_minutes = expiry]]
    /\ IF db.codes[c].present
       THEN Finish(p, ResMsg("False", "Code already exists"))
       ELSE IF amount <= 0
       THEN Finish(p, ResMsg("False", "Amount must be positive"))
       ELSE IF max_uses <= 0
       THEN Finish(p, ResMsg("False", "Max uses must be positive"))
       ELSE /\ pc' = [pc EXCEPT ![p] = "cc_insert"]
            /\ UNCHANGED result
    /\ UNCHANGED <<db, now, tz, RENDER, chat, writer, snap, work, stale, chk, hist, seen>>

create_redeem_code_check(p, c, amount, max_uses, expiry) ==
    create_redeem_code_from(p, 0, <<>>, c, amount, max_uses, expiry)

\* INSERT INTO redeem_codes ...; a code inserted meanwhile by another call
\* violates the primary key and the call returns (False, "Error: ...").
create_redeem_code_insert(p) ==
    LET c == call[p].code
        row == NewCodeRow(call[p].amount, call[p].max_uses,
                          call[p].expiry_minutes, datetime_now)
    IN  /\ pc[p] = "cc_insert"
        /\ CanWrite(p)
        /\ snap' = [snap EXCEPT ![p] = db]
        /\ IF db.codes[c].present
           THEN /\ Finish(p, ResMsg("False", "Error: UNIQUE constraint failed"))
                /\ UNCHANGED <<work, writer>>
           ELSE /\ work' = [work EXCEPT ![p] = [db EXCEPT !.codes =
                              cleanup_trigger([db.codes EXCEPT ![c] = row], now)]]
                /\ writer' = p
                /\ pc' = [pc EXCEPT ![p] = "commit"]
                /\ result' = [result EXCEPT ![p] =
                                 ResMsg("True", "Code created successfully")]
        /\ UNCHANGED <<calls, db, now, tz, RENDER, chat, call, stale, chk, hist, seen>>

\* ------------------------------------------------------------ redeem_code_db
\* variant: the use limit compared with > instead of >=
EarlyOutcome_off_by_one(s, u, c) ==
    IF ~s.users[u].present THEN "user_not_found"
    ELSE IF <<u, c>> \in s.logs THEN "already_claimed"
    ELSE IF ~s.codes[c].present THEN "invalid"
    ELSE IF ~s.codes[c].is_active THEN "inactive"
    ELSE IF s.codes[c].current_uses > s.codes[c].max_uses THEN "limit_reached"
    ELSE "pass"

\* variant: the use limit checked before the active flag
EarlyOutcome_limit_first(s, u, c) ==
    IF ~s.users[u].present THEN "user_not_found"
    ELSE IF <<u, c>> \in s.logs THEN "already_claimed"
    ELSE IF ~s.codes[c].present THEN "invalid"
    ELSE IF s.codes[c].current_uses >= s.codes[c].max_uses THEN "limit_reached"
    ELSE IF ~s.codes[c].is_active THEN "inactive"
    ELSE "pass"

\* variant: no use limit check
EarlyOutcome_no_limit(s, u, c) ==
    IF ~s.users[u].present THEN "user_not_found"
    ELSE IF <<u, c>> \in s.logs THEN "already_claimed"
    ELSE IF ~s.codes[c].present THEN "invalid"
    ELSE IF ~s.codes[c].is_active THEN "inactive"
    ELSE "pass"

\* Checks 1..5 of redeem_code_db, in the order of the code, on the rows the
\* transaction read.  "pass" = none of them failed.
EarlyOutcome(s, u, c) ==
    IF ~s.users[u].present THEN "user_not_found"
    ELSE IF <<u, c>> \in s.logs THEN "already_claimed"
    ELSE IF ~s.codes[c].present THEN "invalid"
    ELSE IF ~s.codes[c].is_active THEN "inactive"
    ELSE IF s.codes[c].current_uses >= s.codes[c].max_uses THEN "limit_reached"
    ELSE "pass"

\* variant: the expiry is taken in hours, timedelta(hours=expiry_minutes)
PyExpired_hours(row, t) ==
    /\ row.expiry_minutes > 0
    /\ t > row.created_date + 60 * row.expiry_minutes

\* variant: a timestamp that cannot be parsed counts as expired
PyExpired_unparsed_expires(row, t) ==
    /\ row.expiry_minutes > 0
    /\ \/ fromisoformat_raises(row.created_date)
       \/ t > row.created_date + row.expiry_minutes

\* expiry_minutes is not None and expiry_minutes > 0 and
\* datetime.now() > created_dt + timedelta(minutes=expiry_minutes); the
\* exception of fromisoformat is logged and the check left
PyExpired(row, t) ==
    /\ row.expiry_minutes > 0
    /\ ~fromisoformat_raises(row.created_date)
    /\ t > row.created_date + row.expiry_minutes

\* BEGIN TRANSACTION and the three SELECTs: they all read the snapshot the
\* first SELECT opens; each failed check ends the call with ROLLBACK.
redeem_code_db_read(p, u, c) ==
    /\ pc[p] = "idle"
    /\ Budget
    /\ call' = [call EXCEPT ![p] = [NoCall EXCEPT !.op = "redeem_code_db",
                                    !.user_id = u, !.code = c]]
    /\ snap' = [snap EXCEPT ![p] = db]
    /\ work' = [work EXCEPT ![p] = db]
    /\ seen' = [seen EXCEPT ![p] =
                  [full |-> db.codes[c].present /\ wins[c] >= db.codes[c].max_uses,
                   dead |-> dead[c],
                   late |-> /\ db.codes[c].present
                            /\ db.codes[c].expiry_minutes > 0
                            /\ db.codes[c].created_date + db.codes[c].expiry_minutes
                                   < datetime_now]]
    /\ IF EarlyOutcome(db, u, c) # "pass"
       THEN Finish(p, Res(EarlyOutcome(db, u, c), 0))
       ELSE /\ pc' = [pc EXCEPT ![p] = "r_expiry"]
            /\ UNCHANGED result
    /\ UNCHANGED <<db, now, tz, RENDER, chat, writer, stale, chk, hist>>

\* variant: a code found expired is deactivated on the spot
redeem_code_db_expiry_deactivates(p) ==
    /\ pc[p] = "r_expiry"
    /\ chk' = [chk EXCEPT ![p] = datetime_now]
    /\ IF PyExpired(snap[p].codes[call[p].code], datetime_now)
       THEN /\ Finish(p, Res("expired", 0))
            /\ db' = [db EXCEPT !.codes[call[p].code].is_active = FALSE]
       ELSE /\ pc' = [pc EXCEPT ![p] = "r_upd_code"]
            /\ UNCHANGED <<result, db>>
    /\ UNCHANGED <<calls, now, tz, RENDER, chat, writer, call, snap, work, stale, hist, seen>>

\* the expiry check, with the clock as it stands when the check runs
redeem_code_db_expiry(p) ==
    /\ pc[p] = "r_expiry"
    /\ chk' = [chk EXCEPT ![p] = datetime_now]
    /\ IF PyExpired(snap[p].codes[call[p].code], datetime_now)
       THEN Finish(p, Res("expired", 0))
       ELSE /\ pc' = [pc EXCEPT ![p] = "r_upd_code"]
            /\ UNCHANGED result
    /\ UNCHANGED <<calls, db, now, tz, RENDER, chat, writer, call, snap, work, stale, hist, seen>>

\* variant: the writes made before the failure stay in the database
redeem_code_db_except_keeps_writes(p) ==
    /\ writer' = IF writer = p THEN 0 ELSE writer
    /\ db' = IF writer = p THEN work[p] ELSE db
    /\ Finish(p, Res("error", 0))
    /\ UNCHANGED <<calls, now, tz, RENDER, chat, call, snap, work, stale, chk, hist, seen>>

\* except Exception: the connection is already closed, which rolled the open
\* transaction back; the call returns "error: ...".
redeem_code_db_except(p) ==
    /\ writer' = IF writer = p THEN 0 ELSE writer
    /\ Finish(p, Res("error", 0))
    /\ UNCHANGED <<calls, db, now, tz, RENDER, chat, call, snap, work, stale, chk, hist, seen>>

\* UPDATE redeem_codes SET current_uses = current_uses + 1 WHERE code = ?
redeem_code_db_update_code(p) ==
    /\ pc[p] = "r_upd_code"
    /\ IF CanUpgrade(p)
       THEN /\ writer' = p
            /\ work' = [work EXCEPT ![p].codes[call[p].code].current_uses = @ + 1]
            /\ pc' = [pc EXCEPT ![p] = "r_upd_user"]
            /\ UNCHANGED <<calls, db, now, tz, RENDER, chat, call, snap, stale, chk, result, hist, seen>>
       ELSE redeem_code_db_except(p)

\* variant: total_earned left out of the UPDATE
redeem_code_db_update_user_no_earned(p) ==
    LET u == call[p].user_id
        amount == snap[p].codes[call[p].code].amount
    IN  /\ pc[p] = "r_upd_user"
        /\ work' = [work EXCEPT ![p].users[u] =
                      [@ EXCEPT !.credits = @ + amount, !.last_active = now]]
        /\ pc' = [pc EXCEPT ![p] = "r_ins_log"]
        /\ UNCHANGED <<calls, db, now, tz, RENDER, chat, writer, call, snap, stale, chk, result, hist, seen>>

\* UPDATE users SET credits = credits + ?, total_earned = total_earned + ?,
\* last_active = ? WHERE user_id = ?   (amount as read by the SELECT)
redeem_code_db_update_user(p) ==
    LET u == call[p].user_id
        amount == snap[p].codes[call[p].code].amount
    IN  /\ pc[p] = "r_upd_user"
        /\ work' = [work EXCEPT ![p].users[u] =
                      [@ EXCEPT !.credits = @ + amount,
                                !.total_earned = @ + amount,
                                !.last_active = now]]
        /\ pc' = [pc EXCEPT ![p] = "r_ins_log"]
        /\ UNCHANGED <<calls, db, now, tz, RENDER, chat, writer, call, snap, stale, chk, result, hist, seen>>

\* INSERT INTO redeem_logs (user_id, code, claimed_date); UNIQUE(user_id, code)
redeem_code_db_insert_log(p) ==
    LET u == call[p].user_id
        c == call[p].code
    IN  /\ pc[p] = "r_ins_log"
        /\ IF <<u, c>> \in work[p].logs
           THEN redeem_code_db_except(p)
           ELSE /\ work' = [work EXCEPT ![p].logs = @ \cup {<<u, c>>}]
                /\ pc' = [pc EXCEPT ![p] = "r_commit"]
                /\ UNCHANGED <<calls, db, now, tz, RENDER, chat, writer, call, snap, stale, chk, result,
                               hist, seen>>

\* COMMIT; return amount
redeem_code_db_commit(p) ==
    LET u == call[p].user_id
        c == call[p].code
    IN  /\ pc[p] = "r_commit"
        /\ writer = p
        /\ db' = work[p]
        /\ writer' = 0
        /\ stale' = MarkStale(p, work[p])
        /\ Finish(p, Res("credited", snap[p].codes[c].amount))
        /\ wins' = [wins EXCEPT ![c] = @ + 1]
        /\ credited' = [credited EXCEPT ![u][c] = @ + 1]
        /\ UNCHANGED <<calls, now, tz, RENDER, chat, call, snap, work, chk, dead, owed, owedPos, seen>>

\* a storage fault in one of the statements after the checks
redeem_code_db_fault(p) ==
    /\ pc[p] \in {"r_upd_code", "r_upd_user", "r_ins_log", "r_commit"}
    /\ redeem_code_db_except(p)

\* ----------------------------------------------------------- deactivate_code
\* SELECT code FROM redeem_codes WHERE code = ?
deactivate_code_check(p, c) ==
    /\ pc[p] = "idle"
    /\ Budget
    /\ call' = [call EXCEPT ![p] = [NoCall EXCEPT !.op = "deactivate_code",
                                    !.code = c]]
    /\ IF ~db.codes[c].present
       THEN Finish(p, Res("False", 0))
       ELSE /\ pc' = [pc EXCEPT ![p] = "dc_update"]
            /\ UNCHANGED result
    /\ UNCHANGED <<db, now, tz, RENDER, chat, writer, snap, work, stale, chk, hist, seen>>

\* variant: the flag is toggled instead of cleared
deactivate_code_update_toggle(p) ==
    LET c == call[p].code
    IN  /\ pc[p] = "dc_update"
        /\ CanWrite(p)
        /\ snap' = [snap EXCEPT ![p] = db]
        /\ work' = [work EXCEPT ![p] =
                      IF db.codes[c].present
                      THEN [db EXCEPT !.codes[c].is_active = ~@]
                      ELSE db]
        /\ writer' = p
        /\ pc' = [pc EXCEPT ![p] = "commit"]
        /\ result' = [result EXCEPT ![p] = Res("True", 0)]
        /\ UNCHANGED <<calls, db, now, tz, RENDER, chat, call, stale, chk, hist, seen>>

\* UPDATE redeem_codes SET is_active = 0 WHERE code = ?
deactivate_code_update(p) ==
    LET c == call[p].code
    IN  /\ pc[p] = "dc_update"
        /\ CanWrite(p)
        /\ snap' = [snap EXCEPT ![p] = db]
        /\ work' = [work EXCEPT ![p] =
                      IF db.codes[c].present
                      THEN [db EXCEPT !.codes[c].is_active = FALSE]
                      ELSE db]
        /\ writer' = p
        /\ pc' = [pc EXCEPT ![p] = "commit"]
        /\ result' = [result EXCEPT ![p] = Res("True", 0)]
        /\ UNCHANGED <<calls, db, now, tz, RENDER, chat, call, stale, chk, hist, seen>>

\* -------------------------------------------------------- delete_redeem_code
\* DELETE FROM redeem_codes WHERE code = ?   The connection never sets
\* PRAGMA foreign_keys, so the ON DELETE CASCADE of redeem_logs does not run.
delete_redeem_code(p, c) ==
    /\ pc[p] = "idle"
    /\ Budget
    /\ CanWrite(p)
    /\ call' = [call EXCEPT ![p] = [NoCall EXCEPT !.op = "delete_redeem_code",
                                    !.code = c]]
    /\ snap' = [snap EXCEPT ![p] = db]
    /\ work' = [work EXCEPT ![p] = [db EXCEPT !.codes[c] = NoCode]]
    /\ writer' = p
    /\ pc' = [pc EXCEPT ![p] = "commit"]
    /\ result' = [result EXCEPT ![p] = Res("True", 0)]
    /\ UNCHANGED <<db, now, tz, RENDER, chat, stale, chk, hist, seen>>

\* ----------------------------------------------------- cleanup_expired_codes
\* UPDATE redeem_codes SET is_active = 0 WHERE is_active = 1 AND
\* expiry_minutes IS NOT NULL AND expiry_minutes > 0 AND created + expiry < now
SweptCodes(codes, t) ==
    [c \in CodeIds |-> IF codes[c].is_active /\ SqlExpired(codes[c], t)
                       THEN [codes[c] EXCEPT !.is_active = FALSE]
                       ELSE codes[c]]

cleanup_expired_codes(p) ==
    /\ pc[p] = "idle"
    /\ Budget
    /\ CanWrite(p)
    /\ call' = [call EXCEPT ![p] = [NoCall EXCEPT !.op = "cleanup_expired_codes"]]
    /\ snap' = [snap EXCEPT ![p] = db]
    /\ work' = [work EXCEPT ![p] = [db EXCEPT !.codes = SweptCodes(db.codes, now)]]
    /\ writer' = p
    /\ pc' = [pc EXCEPT ![p] = "commit"]
    /\ result' = [result EXCEPT ![p] =
          Res("changes", Cardinality({c \in CodeIds :
                 db.codes[c].is_active /\ SqlExpired(db.codes[c], now)}))]
    /\ UNCHANGED <<db, now, tz, RENDER, chat, stale, chk, hist, seen>>

\* ----------------------------------------------------------- parse_time_string
\* A string is the sequence of its characters.  "sup2" is the character
\* SUPERSCRIPT TWO (U+00B2), a digit for str.isdigit() but neither matched by
\* \d nor accepted by int().
DecimalDigits == {"0", "1", "2", "3", "4", "5", "6", "7", "8", "9"}

DigitValue(ch) ==
    CASE ch = "0" -> 0 [] ch = "1" -> 1 [] ch = "2" -> 2 [] ch = "3" -> 3
      [] ch = "4" -> 4 [] ch = "5" -> 5 [] ch = "6" -> 6 [] ch = "7" -> 7
      [] ch = "8" -> 8 [] ch = "9" -> 9

\* str.lower() on the characters in use
LowerChar(ch) ==
    CASE ch = "H" -> "h" [] ch = "M" -> "m" [] ch = "D" -> "d"
      [] ch = "N" -> "n" [] ch = "O" -> "o" [] ch = "E" -> "e"
      [] OTHER -> ch

lower(str) == [i \in 1..Len(str) |-> LowerChar(str[i])]

\* str.isdigit(): not empty and every character a digit
isdigit(str) ==
    Len(str) > 0 /\ \A i \in 1..Len(str) : str[i] \in DecimalDigits \cup {"sup2"}

\* int(str) accepts decimal digits only
IntRaises(str) == \E i \in 1..Len(str) : str[i] \notin DecimalDigits

RECURSIVE IntValue(_)
IntValue(str) ==
    IF str = <<>> THEN 0
    ELSE IntValue(SubSeq(str, 1, Len(str) - 1)) * 10 + DigitValue(str[Len(str)])

\* re.search(r'(\d+)' + unit, str): the leftmost run of decimal digits that is
\* directly followed by the unit letter; <<first, last>> of the run, or <<>>
RunEnd(str, i) ==
    CHOOSE j \in i..Len(str) :
        /\ \A k \in i..j : str[k] \in DecimalDigits
        /\ j = Len(str) \/ str[j + 1] \notin DecimalDigits

Matches(str, unit) ==
    {i \in 1..Len(str) :
        /\ str[i] \in DecimalDigits
        /\ RunEnd(str, i) < Len(str)
        /\ str[RunEnd(str, i) + 1] = unit}

re_search(str, unit) ==
    IF Matches(str, unit) = {} THEN <<>>
    ELSE LET i == CHOOSE k \in Matches(str, unit) :
                      \A l \in Matches(str, unit) : k <= l
         IN  <<i, RunEnd(str, i)>>

\* int(match.group(1))
Group(str, match) == IntValue(SubSeq(str, match[1], match[2]))

None == Res("None", 0)
Minutes(n) == Res("minutes", n)

\* variant: a total of zero is returned as 0 minutes
parse_time_string_zero_total(time_str) ==
    IF time_str = <<>> \/ lower(time_str) = <<"n", "o", "n", "e">> THEN None
    ELSE LET str == lower(time_str)
             hour_match == re_search(str, "h")
             minute_match == re_search(str, "m")
             day_match == re_search(str, "d")
             total_minutes ==
                 (IF hour_match # <<>> THEN Group(str, hour_match) * 60 ELSE 0)
               + (IF minute_match # <<>> THEN Group(str, minute_match) ELSE 0)
               + (IF day_match # <<>> THEN Group(str, day_match) * 24 * 60 ELSE 0)
         IN  IF hour_match # <<>> \/ minute_match # <<>> \/ day_match # <<>>
             THEN Minutes(total_minutes)
             ELSE IF isdigit(str)
             THEN IF IntRaises(str) THEN ResMsg("raise", "ValueError")
                  ELSE Minutes(IntValue(str))
             ELSE None

\* parse_time_string(time_str) for a string: the value returned, or the
\* exception that leaves the function
parse_time_string(time_str) ==
    IF time_str = <<>> \/ lower(time_str) = <<"n", "o", "n", "e">> THEN None
    ELSE LET str == lower(time_str)
             hour_match == re_search(str, "h")
             minute_match == re_search(str, "m")
             day_match == re_search(str, "d")
             total_minutes ==
                 (IF hour_match # <<>> THEN Group(str, hour_match) * 60 ELSE 0)
               + (IF minute_match # <<>> THEN Group(str, minute_match) ELSE 0)
               + (IF day_match # <<>> THEN Group(str, day_match) * 24 * 60 ELSE 0)
         IN  IF hour_match # <<>> \/ minute_match # <<>> \/ day_match # <<>>
             THEN IF total_minutes > 0 THEN Minutes(total_minutes) ELSE None
             ELSE IF isdigit(str)
             THEN IF IntRaises(str) THEN ResMsg("raise", "ValueError")
                  ELSE IF IntValue(str) > 0 THEN Minutes(IntValue(str)) ELSE None
             ELSE None

\* the strings an admin may type as the expiry of a code: every string of up
\* to MaxText characters of a small alphabet, and the documented examples
Alphabet == {"0", "1", "3", "h", "m", "d", "H", " ", "sup2"}

Examples ==
    {<<"1", "h", "3", "0", "m">>, <<"2", "h">>, <<"4", "5">>, <<"3", "0", "m">>,
     <<"2", "4", "h">>, <<"n", "o", "n", "e">>, <<"N", "O", "N", "E">>,
     <<"N", "o", "n", "e">>, <<"0", "h", "0", "m">>, <<" ", "4", "5", " ">>,
     <<"1", "d", "2", "h">>, <<"3", "m", "1", "d", "1", "h">>}

TimeStrings == Examples \cup UNION {[1..n -> Alphabet] : n \in 0..MaxText}

\* a caller parses one string
parse_time_string_call(p, time_str) ==
    /\ pc[p] = "idle"
    /\ Budget
    /\ call' = [call EXCEPT ![p] = [NoCall EXCEPT !.op = "parse_time_string",
                                    !.input_data = time_str]]
    /\ Finish(p, parse_time_string(time_str))
    /\ UNCHANGED <<db, now, tz, RENDER, chat, writer, snap, work, stale, chk, hist, seen>>

\* ------------------------------------------------------------------ log_lookup
\* a text is the sequence of its characters, a character a small number
Text(n) == [i \in 1..n |-> i % 7]

\* s[:n]
Slice(s, n) == SubSeq(s, 1, IF Len(s) < n THEN Len(s) ELSE n)

\* variant: the last characters are stored instead of the first
LookupRow_tail(u, input_data, res, t) ==
    [user_id |-> u,
     input_data |-> SubSeq(input_data,
                           IF Len(input_data) < INPUT_LIMIT THEN 1
                           ELSE Len(input_data) - INPUT_LIMIT + 1, Len(input_data)),
     result |-> SubSeq(res, IF Len(res) < RESULT_LIMIT THEN 1
                            ELSE Len(res) - RESULT_LIMIT + 1, Len(res)),
     lookup_date |-> t]

\* VALUES (user_id, api_type, input_data[:500], str(result)[:2000], now)
LookupRow(u, input_data, res, t) ==
    [user_id |-> u, input_data |-> Slice(input_data, INPUT_LIMIT),
     result |-> Slice(res, RESULT_LIMIT), lookup_date |-> t]

\* the texts a caller may pass: empty or short, at the limit, one beyond it
InputTexts == {Text(n) : n \in {0, INPUT_LIMIT, INPUT_LIMIT + 1}}
ResultTexts == {Text(n) : n \in {1, RESULT_LIMIT, RESULT_LIMIT + 1}}

\* log_lookup(user_id, api_type, input_data, result): INSERT and commit
log_lookup(p, u, input_data, res) ==
    /\ pc[p] = "idle"
    /\ Budget
    /\ CanWrite(p)
    /\ Len(db.lookups) < MaxLookups
    /\ call' = [call EXCEPT ![p] = [NoCall EXCEPT !.op = "log_lookup",
                    !.user_id = u, !.input_data = input_data, !.result = res]]
    /\ snap' = [snap EXCEPT ![p] = db]
    /\ work' = [work EXCEPT ![p] = [db EXCEPT !.lookups =
                     Append(@, LookupRow(u, input_data, res, datetime_now))]]
    /\ writer' = p
    /\ pc' = [pc EXCEPT ![p] = "commit"]
    /\ result' = [result EXCEPT ![p] = Res("True", 0)]
    /\ UNCHANGED <<db, now, tz, RENDER, chat, stale, chk, hist, seen>>

\* ------------------------------------------------------------ process_api_call
\* get_user returns dict(row): a dictionary keyed by the column names of users
UserColumns == {"user_id", "username", "credits", "joined_date", "referrer_id",
                "is_banned", "total_earned", "last_active"}

\* user[k] raises KeyError when k is not a key of the dictionary; the handlers
\* index by position, written here as "2" and "5"
KeyError(k) == k \notin UserColumns

\* is_user_banned: user and len(user) > 5 and user[5] == 1, any exception
\* gives False
is_user_banned(s, u) ==
    IF ~s.users[u].present THEN FALSE
    ELSE IF ~(Cardinality(UserColumns) > 5) THEN FALSE
    ELSE IF KeyError("5") THEN FALSE
    ELSE s.users[u].is_banned

\* what the third-party API call may end in
ApiOutcomes == {"ok", "server_error", "unavailable"}

\* process_api_call up to the credit check: is_user_banned, get_user,
\* is_user_admin, then
\* "if not admin_level and (not user or len(user) <= 2 or user[2] < 1)"
\* inside try / except Exception
process_api_call_check_by_name(p, u, admin) ==
    /\ pc[p] = "idle"
    /\ Budget
    /\ call' = [call EXCEPT ![p] = [NoCall EXCEPT !.op = "process_api_call",
                                    !.user_id = u, !.admin = admin]]
    /\ snap' = [snap EXCEPT ![p] = db]
    /\ IF is_user_banned(db, u)
       THEN Finish(p, Res("banned", 0))
       ELSE IF admin
       THEN pc' = [pc EXCEPT ![p] = "api_fetch"] /\ UNCHANGED result
       ELSE IF ~db.users[u].present \/ db.users[u].credits < 1
       THEN Finish(p, ResMsg("insufficient", "Insufficient Credits!"))
       ELSE pc' = [pc EXCEPT ![p] = "api_fetch"] /\ UNCHANGED result
    /\ UNCHANGED <<db, now, tz, RENDER, chat, writer, work, stale, chk, hist, seen>>

process_api_call_check(p, u, admin) ==
    /\ pc[p] = "idle"
    /\ Budget
    /\ call' = [call EXCEPT ![p] = [NoCall EXCEPT !.op = "process_api_call",
                                    !.user_id = u, !.admin = admin]]
    /\ snap' = [snap EXCEPT ![p] = db]
    /\ IF is_user_banned(db, u)
       THEN Finish(p, Res("banned", 0))
       ELSE IF admin
       THEN pc' = [pc EXCEPT ![p] = "api_fetch"] /\ UNCHANGED result
       ELSE IF ~db.users[u].present \/ Cardinality(UserColumns) <= 2
       THEN Finish(p, ResMsg("insufficient", "Insufficient Credits!"))
       ELSE IF KeyError("2")
       THEN Finish(p, ResMsg("error", "Error checking your account!"))
       ELSE IF db.users[u].credits < 1
       THEN Finish(p, ResMsg("insufficient", "Insufficient Credits!"))
       ELSE pc' = [pc EXCEPT ![p] = "api_fetch"] /\ UNCHANGED result
    /\ UNCHANGED <<db, now, tz, RENDER, chat, writer, work, stale, chk, hist, seen>>

\* the request to the API: an unconfigured service ends the handler; an
\* exception becomes the "Server Error" document, which is sent like a result
process_api_call_fetch(p, outcome) ==
    /\ pc[p] = "api_fetch"
    /\ IF outcome = "unavailable"
       THEN Finish(p, Res("unavailable", 0))
       ELSE /\ pc' = [pc EXCEPT ![p] = "api_debit"]
            /\ result' = [result EXCEPT ![p] = Res(outcome, 0)]
    /\ UNCHANGED <<calls, db, now, tz, RENDER, chat, writer, call, snap, work, stale, chk,
                   hist, seen>>

\* if not admin_level: await update_credits(user_id, -1)
process_api_call_debit(p) ==
    LET u == call[p].user_id
        newdb == IF ~call[p].admin /\ db.users[u].present
                 THEN [db EXCEPT !.users[u] = CreditedRow(@, -1, now)]
                 ELSE db
    IN  /\ pc[p] = "api_debit"
        /\ CanWrite(p)
        /\ db' = newdb
        /\ stale' = MarkStale(p, newdb)
        /\ pc' = [pc EXCEPT ![p] = "api_log"]
        /\ UNCHANGED <<calls, now, tz, RENDER, chat, writer, call, snap, work, chk, result,
                       hist, seen>>

\* await log_lookup(user_id, api_type, input_data, json.dumps(raw_data))
process_api_call_log(p) ==
    LET newdb == [db EXCEPT !.lookups =
                    Append(@, LookupRow(call[p].user_id, Text(1),
                                        IF result[p].kind = "ok" THEN Text(1)
                                        ELSE Text(2), datetime_now))]
    IN  /\ pc[p] = "api_log"
        /\ CanWrite(p)
        /\ db' = newdb
        /\ stale' = MarkStale(p, newdb)
        /\ pc' = [pc EXCEPT ![p] = "api_active"]
        /\ UNCHANGED <<calls, now, tz, RENDER, chat, writer, call, snap, work, chk, result,
                       hist, seen>>

\* await update_last_active(user_id); the log channel copy writes nothing
process_api_call_active(p) ==
    LET u == call[p].user_id
        newdb == IF db.users[u].present
                 THEN [db EXCEPT !.users[u].last_active = datetime_now]
                 ELSE db
    IN  /\ pc[p] = "api_active"
        /\ CanWrite(p)
        /\ db' = newdb
        /\ stale' = MarkStale(p, newdb)
        /\ pc' = [pc EXCEPT ![p] = "done"]
        /\ UNCHANGED <<calls, now, tz, RENDER, chat, writer, call, snap, work, chk, result,
                       hist, seen>>

\* -------------------------------------------------------------- start_command
\* the bot sends the user a message of the given kind
Tell(u, kind) == [chat EXCEPT ![u].told = @ \cup {kind}]

\* /start, with "ref_<ref>" as its argument when ref # 0: the ban test, then
\* existing_user = await get_user(user_id); a referral naming the sender
\* is dropped
start_command_begin(p, u, ref) ==
    /\ pc[p] = "idle"
    /\ Budget
    /\ call' = [call EXCEPT ![p] = [NoCall EXCEPT !.op = "start_command",
                    !.user_id = u, !.referrer_id = IF ref = u THEN 0 ELSE ref]]
    /\ snap' = [snap EXCEPT ![p] = db]
    /\ IF is_user_banned(db, u)
       THEN /\ Finish(p, Res("banned", 0))
            /\ chat' = Tell(u, "banned")
       ELSE IF db.users[u].present
       THEN /\ Finish(p, Res("welcome", 0))
            /\ chat' = Tell(u, "welcome")
       ELSE /\ pc' = [pc EXCEPT ![p] = "st_add_user"]
            /\ UNCHANGED <<result, chat>>
    /\ UNCHANGED <<db, now, tz, RENDER, writer, work, stale, chk, hist, seen>>

\* the users table after add_user(v, username, r) has run as a whole (its
\* statements are those of add_user_check, add_user_referrer, add_user_insert)
AddedUser(users, v, r, t, utc) ==
    IF users[v].present THEN users
    ELSE LET u1 == IF r # 0 /\ users[r].present
                   THEN [users EXCEPT ![r] = ReferrerBonus(@, utc)]
                   ELSE users
         IN  [u1 EXCEPT ![v] = NewUserRow(r, t)]

\* await add_user(user_id, username, referrer_id): the value it returns is
\* not looked at
start_command_add_user(p) ==
    LET v == call[p].user_id
        r == call[p].referrer_id
        newdb == [db EXCEPT !.users = AddedUser(db.users, v, r, datetime_now, now)]
    IN  /\ pc[p] = "st_add_user"
        /\ CanWrite(p)
        /\ db' = newdb
        /\ stale' = MarkStale(p, newdb)
        /\ pc' = [pc EXCEPT ![p] = "st_bonus"]
        /\ UNCHANGED <<calls, now, tz, RENDER, chat, writer, call, snap, work, chk,
                       result, hist, seen>>

\* if referrer_id: await update_credits(referrer_id, 3), and the referrer is
\* told of the bonus; then the welcome
start_command_bonus(p) ==
    LET v == call[p].user_id
        r == call[p].referrer_id
        newdb == IF r # 0 /\ db.users[r].present
                 THEN [db EXCEPT !.users[r] = CreditedRow(@, REFERRAL_BONUS, now)]
                 ELSE db
    IN  /\ pc[p] = "st_bonus"
        /\ CanWrite(p)
        /\ db' = newdb
        /\ stale' = MarkStale(p, newdb)
        /\ chat' = [w \in UserIds |->
                      IF w = v THEN [chat[w] EXCEPT !.told = @ \cup {"welcome"}]
                      ELSE IF w = r THEN [chat[w] EXCEPT !.told = @ \cup {"referral"}]
                      ELSE chat[w]]
        /\ Finish(p, Res("registered", 0))
        /\ UNCHANGED <<calls, now, tz, RENDER, writer, call, snap, work, chk, hist, seen>>

\* ------------------------------------------------------------ redeem handlers
\* state.clear() of the sender's conversation
Cleared(c, u) == [c EXCEPT ![u].state = "none", ![u].api_type = "none"]

\* the Redeem button: the prompt is sent and the state set; no ban test here
redeem_start(p, u) ==
    /\ pc[p] = "idle"
    /\ Budget
    /\ chat' = [chat EXCEPT ![u].state = "waiting_for_redeem",
                            ![u].told = @ \cup {"enter_code"}]
    /\ UNCHANGED <<db, now, tz, RENDER, writer, procvars, hist>>

\* handle_inputs, state waiting_for_redeem: a text that is no command; after
\* the ban test, result = await redeem_code_db(user_id, code)
handle_inputs_redeem(p, u, c) ==
    /\ chat[u].state = "waiting_for_redeem"
    /\ IF is_user_banned(db, u)
       THEN /\ pc[p] = "idle"
            /\ Budget
            /\ UNCHANGED <<db, now, tz, RENDER, chat, writer, procvars, hist>>
       ELSE redeem_code_db_read(p, u, c)

\* the message that answers each value of redeem_code_db
RedeemReplies ==
    {"credited", "already_claimed", "invalid", "inactive", "limit_reached", "expired"}

\* handle_inputs after redeem_code_db has returned.  For an integer result
\* the handler reads user_data[2] from get_user's dictionary to show the new
\* balance: the KeyError leaves the handler before the message and before
\* state.clear().  Every other result is answered and the state cleared.
handle_inputs_redeem_reply(p) ==
    LET u == call[p].user_id
        kind == result[p].kind
    IN  /\ pc[p] = "done"
        /\ call[p].op = "redeem_code_db"
        /\ call' = [call EXCEPT ![p].op = "handle_inputs"]
        /\ chat' = IF kind = "credited"
                   THEN IF db.users[u].present /\ Cardinality(UserColumns) > 2
                           /\ KeyError("2")
                        THEN chat
                        ELSE Cleared(Tell(u, "credited"), u)
                   ELSE IF kind \in RedeemReplies
                   THEN Cleared(Tell(u, kind), u)
                   ELSE Cleared(Tell(u, "error"), u)
        /\ UNCHANGED <<calls, db, now, tz, RENDER, writer, pc, snap, work, stale, chk,
                       result, hist, seen>>

\* ----------------------------------------------------------- service buttons
\* the environment: the owner is none of the modelled users, ADMIN_IDS is empty
ADMIN_IDS == {}

\* is_user_admin: the owner, a configured admin, or a row of the admins table
is_user_admin(s, u) == u = OWNER_ID \/ u \in ADMIN_IDS \/ u \in s.admins

\* the keys of APIS, all configured
ServiceKeys ==
    {"num", "ifsc", "email", "gst", "vehicle", "pincode", "instagram", "github",
     "pakistan", "ip", "ff_info", "ff_ban"}
APIS == ServiceKeys

\* a key as the pieces between its underscores
Segments(key) ==
    IF key = "ff_info" THEN <<"ff", "info">>
    ELSE IF key = "ff_ban" THEN <<"ff", "ban">>
    ELSE <<key>>

\* callback_data of a service button, "api_" + key, as callback.data.split('_')
\* sees it
CallbackData(key) == <<"api">> \o Segments(key)

\* api_type = callback.data.split('_')[1]
SplitSecond(data) == data[2]

\* a service button: ban test, membership test, then the state is set and
\* api_type stored if APIS has an endpoint under api_type
ask_api_input(p, u, key, member) ==
    LET data == CallbackData(key)
        api_type == SplitSecond(data)
    IN  /\ pc[p] = "idle"
        /\ Budget
        /\ call' = [call EXCEPT ![p] = [NoCall EXCEPT !.op = "ask_api_input",
                                        !.user_id = u, !.data = data,
                                        !.member = member]]
        /\ IF is_user_banned(db, u)
           THEN Finish(p, Res("banned", 0)) /\ UNCHANGED chat
           ELSE IF ~member
           THEN /\ Finish(p, ResMsg("refused", "Join channels first!"))
                /\ chat' = Tell(u, "join_channels")
           ELSE IF api_type \notin APIS
           THEN /\ Finish(p, ResMsg("refused", "This service is temporarily unavailable"))
                /\ chat' = Tell(u, "unavailable")
           ELSE /\ Finish(p, Res("prompted", 0))
                /\ chat' = [chat EXCEPT ![u].state = "waiting_for_api_input",
                                        ![u].api_type = api_type,
                                        ![u].told = @ \cup {"enter_input"}]
        /\ UNCHANGED <<db, now, tz, RENDER, writer, snap, work, stale, chk, hist, seen>>

\* handle_inputs, state waiting_for_api_input: after the ban test,
\* process_api_call(message, api_type, text) for the stored api_type
handle_inputs_api(p, u) ==
    /\ chat[u].state = "waiting_for_api_input"
    /\ IF is_user_banned(db, u)
       THEN /\ pc[p] = "idle"
            /\ Budget
            /\ UNCHANGED <<db, now, tz, RENDER, chat, writer, procvars, hist>>
       ELSE process_api_call_check(p, u, is_user_admin(db, u))

\* handle_inputs after process_api_call has returned: state.clear()
handle_inputs_api_done(p) ==
    /\ pc[p] = "done"
    /\ call[p].op = "process_api_call"
    /\ call' = [call EXCEPT ![p].op = "handle_inputs"]
    /\ chat' = Cleared(chat, call[p].user_id)
    /\ UNCHANGED <<calls, db, now, tz, RENDER, writer, pc, snap, work, stale, chk,
                   result, hist, seen>>

\* ------------------------------------------------------------ admin handlers
\* DELETE FROM admins WHERE user_id = ?
remove_admin(p, u) ==
    /\ pc[p] = "idle"
    /\ Budget
    /\ CanWrite(p)
    /\ call' = [call EXCEPT ![p] = [NoCall EXCEPT !.op = "remove_admin"]]
    /\ snap' = [snap EXCEPT ![p] = db]
    /\ work' = [work EXCEPT ![p] = [db EXCEPT !.admins = @ \ {u}]]
    /\ writer' = p
    /\ pc' = [pc EXCEPT ![p] = "commit"]
    /\ result' = [result EXCEPT ![p] = Res("True", 0)]
    /\ UNCHANGED <<db, now, tz, RENDER, chat, stale, chk, hist, seen>>

\* /customcode: admins only; the format is explained and the state set
custom_code_command(p, u) ==
    /\ pc[p] = "idle"
    /\ Budget
    /\ chat' = IF is_user_admin(db, u)
               THEN [chat EXCEPT ![u].state = "waiting_for_custom_code",
                                 ![u].told = @ \cup {"enter_code_details"}]
               ELSE chat
    /\ UNCHANGED <<db, now, tz, RENDER, writer, procvars, hist>>

\* handle_inputs, state waiting_for_custom_code, text "CODE AMOUNT USES
\* [TIME]" with integers for AMOUNT and USES: after the ban test,
\* await create_redeem_code(code, amt, uses, expiry_minutes)
handle_inputs_custom_code(p, u, c, amt, uses, expiry_minutes) ==
    /\ chat[u].state = "waiting_for_custom_code"
    /\ IF is_user_banned(db, u)
       THEN /\ pc[p] = "idle"
            /\ Budget
            /\ UNCHANGED <<db, now, tz, RENDER, chat, writer, procvars, hist>>
       ELSE create_redeem_code_from(p, u, <<"customcode">>, c, amt, uses,
                                    expiry_minutes)

\* the same state, fewer than three parts or an AMOUNT or USES that int()
\* rejects: the format is explained again and the state cleared
handle_inputs_custom_code_error(p, u) ==
    /\ chat[u].state = "waiting_for_custom_code"
    /\ pc[p] = "idle"
    /\ Budget
    /\ chat' = IF is_user_banned(db, u) THEN chat
               ELSE Cleared(Tell(u, "format_error"), u)
    /\ UNCHANGED <<db, now, tz, RENDER, writer, procvars, hist>>

\* /gencode AMOUNT USES [TIME]: admins only; the code is PRO- and six random
\* hexadecimal digits
generate_random_code(p, u, c, amt, uses, expiry_minutes) ==
    IF is_user_admin(db, u)
    THEN create_redeem_code_from(p, u, <<"gencode">>, c, amt, uses, expiry_minutes)
    ELSE /\ pc[p] = "idle"
         /\ Budget
         /\ UNCHANGED <<db, now, tz, RENDER, chat, writer, procvars, hist>>

\* both handlers after create_redeem_code has returned: its (flag, message)
\* pair is dropped and "Code Created!" is sent; the custom-code handler then
\* clears the state
code_created_reply(p) ==
    LET u == call[p].user_id
        told == Tell(u, "code_created")
    IN  /\ pc[p] = "done"
        /\ call[p].op = "create_redeem_code"
        /\ u # 0
        /\ call' = [call EXCEPT ![p].op = "handle_inputs"]
        /\ chat' = IF call[p].data = <<"customcode">> THEN Cleared(told, u) ELSE told
        /\ UNCHANGED <<calls, db, now, tz, RENDER, writer, pc, snap, work, stale, chk,
                       result, hist, seen>>

\* ------------------------------------------------------- broadcast and cancel
\* the message handlers in the order main.py registers them; the dispatcher
\* runs the first one whose filters accept the message
MessageHandlers ==
    <<"start_command", "broadcast_message", "handle_inputs", "broadcast_media",
      "cancel_command">>

\* text messages: two commands and a text that is no command
Texts == {"/start", "/cancel", "hello"}
StartsWithSlash(text) == text \in {"/start", "/cancel"}

\* the filters of each handler, for a text message
Accepts(handler, state, text) ==
    IF handler = "start_command" THEN text = "/start"
    ELSE IF handler = "broadcast_message" THEN state = "waiting_for_broadcast"
    ELSE IF handler = "handle_inputs" THEN ~StartsWithSlash(text)
    ELSE IF handler = "broadcast_media" THEN FALSE
    ELSE text = "/cancel"

Dispatch(state, text) ==
    LET I == {i \in DOMAIN MessageHandlers : Accepts(MessageHandlers[i], state, text)}
    IN  IF I = {} THEN "none"
        ELSE MessageHandlers[CHOOSE i \in I : \A j \in I : i <= j]

\* /broadcast: admins only; the state is set
broadcast_trigger(p, u) ==
    /\ pc[p] = "idle"
    /\ Budget
    /\ chat' = IF is_user_admin(db, u)
               THEN [chat EXCEPT ![u].state = "waiting_for_broadcast",
                                 ![u].told = @ \cup {"send_broadcast"}]
               ELSE chat
    /\ UNCHANGED <<db, now, tz, RENDER, writer, procvars, hist>>

\* users[:broadcast_limit] of get_all_users(), which orders by user_id
BroadcastTargets(s) ==
    LET all == {v \in UserIds : s.users[v].present}
        broadcast_limit == IF RENDER THEN 100 ELSE 1000
    IN  {v \in all : Cardinality({w \in all : w < v}) < broadcast_limit}

\* broadcast_message: the message is copied to the users and the state cleared
broadcast_message(u) ==
    IF ~is_user_admin(db, u) THEN Cleared(chat, u)
    ELSE LET sent == [v \in UserIds |->
                        IF v \in BroadcastTargets(db)
                        THEN [chat[v] EXCEPT !.told = @ \cup {"broadcast"}]
                        ELSE chat[v]]
         IN  Cleared([sent EXCEPT ![u].told = @ \cup {"broadcast_complete"}], u)

\* cancel_command
cancel_command(u) ==
    IF chat[u].state = "none" THEN Tell(u, "nothing_to_cancel")
    ELSE Cleared(Tell(u, "cancelled"), u)

\* a text message that the dispatcher gives to broadcast_message or to
\* cancel_command
on_message(p, u, text) ==
    LET handler == Dispatch(chat[u].state, text)
    IN  /\ pc[p] = "idle"
        /\ Budget
        /\ handler \in {"broadcast_message", "cancel_command"}
        /\ call' = [call EXCEPT ![p] = [NoCall EXCEPT !.op = handler,
                                        !.user_id = u, !.data = <<text>>]]
        /\ chat' = IF handler = "broadcast_message" THEN broadcast_message(u)
                   ELSE cancel_command(u)
        /\ Finish(p, Res("handled", 0))
        /\ UNCHANGED <<db, now, tz, RENDER, writer, snap, work, stale, chk, hist, seen>>

\* the handler has ended (a ledger call made by a handler is followed by the
\* rest of the handler first)
handler_return(p) ==
    /\ call[p].op \notin {"redeem_code_db", "process_api_call"}
    /\ ~(call[p].op = "create_redeem_code" /\ call[p].user_id # 0)
    /\ Return(p)

\* ------------------------------------------------------------- storage faults
\* the six operations that write the ledger and catch every Exception
LedgerOps == {"add_user", "update_credits", "set_ban_status",
              "create_redeem_code", "redeem_code_db", "bulk_update_credits"}

\* what the except clause of each operation returns
FaultSignal(op) ==
    IF op = "redeem_code_db" THEN Res("error", 0)
    ELSE IF op = "create_redeem_code" THEN ResMsg("False", "Error: storage fault")
    ELSE Res("False", 0)

\* variant: the statements run before the fault stay in the database
storage_fault_keeps_writes(p) ==
    /\ pc[p] \notin {"idle", "done"}
    /\ call[p].op \in LedgerOps \ {"redeem_code_db"}
    /\ writer' = IF writer = p THEN 0 ELSE writer
    /\ db' = IF writer = p THEN work[p] ELSE db
    /\ Finish(p, FaultSignal(call[p].op))
    /\ UNCHANGED <<calls, now, tz, RENDER, chat, call, snap, work, stale, chk, hist, seen>>

\* A statement of the call, or its commit, raises: "async with" closes the
\* connection, which rolls the open transaction back, and the except clause
\* logs the fault and returns the failure signal.
storage_fault(p) ==
    /\ pc[p] \notin {"idle", "done"}
    /\ call[p].op \in LedgerOps \ {"redeem_code_db"}
    /\ writer' = IF writer = p THEN 0 ELSE writer
    /\ Finish(p, FaultSignal(call[p].op))
    /\ UNCHANGED <<calls, db, now, tz, RENDER, chat, call, snap, work, stale, chk, hist, seen>>

\* the INSERT or the commit of log_lookup raises: the call returns False
log_lookup_fault(p) ==
    /\ pc[p] = "commit"
    /\ call[p].op = "log_lookup"
    /\ writer' = IF writer = p THEN 0 ELSE writer
    /\ Finish(p, Res("False", 0))
    /\ UNCHANGED <<calls, db, now, tz, RENDER, chat, call, snap, work, stale, chk, hist, seen>>

\* aiosqlite.connect or the first statement of the call raises
storage_fault_connect(p, op) ==
    /\ pc[p] = "idle"
    /\ Budget
    /\ call' = [call EXCEPT ![p] = [NoCall EXCEPT !.op = op]]
    /\ Finish(p, FaultSignal(op))
    /\ UNCHANGED <<db, now, tz, RENDER, chat, writer, snap, work, stale, chk, hist, seen>>

\* ------------------------------------------------------------ specification
Next ==
    \/ Tick
    \/ \E p \in Procs :
        \/ \E c \in CodeIds, a \in Amounts, m \in MaxUsesSet, e \in ExpirySet :
               create_redeem_code_check(p, c, a, m, e)
        \/ create_redeem_code_insert(p)
        \/ \E u \in UserIds, c \in CodeIds : redeem_code_db_read(p, u, c)
        \/ redeem_code_db_expiry(p)
        \/ redeem_code_db_update_code(p)
        \/ redeem_code_db_update_user(p)
        \/ redeem_code_db_insert_log(p)
        \/ redeem_code_db_commit(p)
        \/ \E c \in CodeIds : deactivate_code_check(p, c)
        \/ deactivate_code_update(p)
        \/ \E c \in CodeIds : delete_redeem_code(p, c)
        \/ cleanup_expired_codes(p)
        \/ commit(p)
        \/ Return(p)

Spec == Init /\ [][Next]_vars

\* the same calls, with storage faults in redeem_code_db
NextFault ==
    \/ Next
    \/ \E p \in Procs : redeem_code_db_fault(p)

SpecFault == Init /\ [][NextFault]_vars

\* update_credits calls only
NextCredits ==
    \/ Tick
    \/ \E p \in Procs :
        \/ \E u \in UserIds, d \in Deltas : update_credits(p, u, d)
        \/ commit(p)
        \/ Return(p)

SpecCredits == Init /\ [][NextCredits]_vars

\* codes created, redeemed and swept, on a host in any time zone
NextSweep ==
    \/ Tick
    \/ \E p \in Procs :
        \/ \E c \in CodeIds, a \in Amounts, m \in MaxUsesSet, e \in ExpirySet :
               create_redeem_code_check(p, c, a, m, e)
        \/ create_redeem_code_insert(p)
        \/ \E u \in UserIds, c \in CodeIds : redeem_code_db_read(p, u, c)
        \/ redeem_code_db_expiry(p)
        \/ redeem_code_db_update_code(p)
        \/ redeem_code_db_update_user(p)
        \/ redeem_code_db_insert_log(p)
        \/ redeem_code_db_commit(p)
        \/ cleanup_expired_codes(p)
        \/ commit(p)
        \/ Return(p)

SpecSweep == InitZones /\ [][NextSweep]_vars

\* registrations only
NextRegister ==
    \/ Tick
    \/ \E p \in Procs :
        \/ \E v \in UserIds, r \in {0} \cup UserIds : add_user_check(p, v, r)
        \/ add_user_referrer(p)
        \/ add_user_insert(p)
        \/ commit(p)
        \/ Return(p)

SpecRegister == InitUsers /\ [][NextRegister]_vars

\* registrations and deletions of users
NextUsers ==
    \/ NextRegister
    \/ \E p \in Procs, u \in UserIds : delete_user(p, u)

SpecUsers == InitUsers /\ [][NextUsers]_vars

\* every operation that writes a user's balance or lifetime counter, the
\* calls made one after the other on one connection at a time
OneAtATime == {1}

NextLedger ==
    \/ Tick
    \/ \E p \in OneAtATime :
        \/ \E v \in UserIds, r \in {0} \cup UserIds : add_user_check(p, v, r)
        \/ add_user_referrer(p)
        \/ add_user_insert(p)
        \/ \E u \in UserIds, d \in Deltas : update_credits(p, u, d)
        \/ \E ids \in BulkLists, d \in Deltas : bulk_update_credits(p, ids, d)
        \/ \E u \in UserIds : reset_user_credits(p, u)
        \/ \E u \in UserIds, b \in BOOLEAN : set_ban_status(p, u, b)
        \/ \E c \in CodeIds, a \in Amounts, m \in MaxUsesSet, e \in ExpirySet :
               create_redeem_code_check(p, c, a, m, e)
        \/ create_redeem_code_insert(p)
        \/ \E u \in UserIds, c \in CodeIds : redeem_code_db_read(p, u, c)
        \/ redeem_code_db_expiry(p)
        \/ redeem_code_db_update_code(p)
        \/ redeem_code_db_update_user(p)
        \/ redeem_code_db_insert_log(p)
        \/ redeem_code_db_commit(p)
        \/ commit(p)
        \/ Return(p)

SpecLedger == Init /\ [][NextLedger]_vars

\* codes created and deleted, with any input, on a host in any time zone
NextCreate ==
    \/ Tick
    \/ \E p \in Procs :
        \/ \E c \in CodeIds, a \in AmountInputs, m \in MaxUsesInputs, e \in ExpirySet :
               create_redeem_code_check(p, c, a, m, e)
        \/ create_redeem_code_insert(p)
        \/ \E c \in CodeIds : delete_redeem_code(p, c)
        \/ commit(p)
        \/ Return(p)

SpecCreate == InitCreate /\ [][NextCreate]_vars

\* the six ledger operations, one call after the other, any of whose
\* statements may raise
NextFaults ==
    \E p \in OneAtATime :
        \/ \E v \in UserIds, r \in {0} \cup UserIds : add_user_check(p, v, r)
        \/ add_user_referrer(p)
        \/ add_user_insert(p)
        \/ \E u \in UserIds, d \in Deltas : update_credits(p, u, d)
        \/ \E ids \in BulkLists, d \in Deltas : bulk_update_credits(p, ids, d)
        \/ \E u \in UserIds, b \in BOOLEAN : set_ban_status(p, u, b)
        \/ \E c \in CodeIds, a \in Amounts, m \in MaxUsesSet, e \in ExpirySet :
               create_redeem_code_check(p, c, a, m, e)
        \/ create_redeem_code_insert(p)
        \/ \E u \in UserIds, c \in CodeIds : redeem_code_db_read(p, u, c)
        \/ redeem_code_db_expiry(p)
        \/ redeem_code_db_update_code(p)
        \/ redeem_code_db_update_user(p)
        \/ redeem_code_db_insert_log(p)
        \/ redeem_code_db_commit(p)
        \/ redeem_code_db_fault(p)
        \/ storage_fault(p)
        \/ \E op \in LedgerOps : storage_fault_connect(p, op)
        \/ commit(p)
        \/ Return(p)

SpecFaults == Init /\ [][NextFaults]_vars

\* bulk gifts sent by an admin one after the other, on the hosting platform
\* or not; a statement of bulk_update_credits may raise
NextBulk ==
    \/ Tick
    \/ \E p \in OneAtATime :
        \/ \E ids \in GiftLists, d \in Deltas : handle_inputs_bulk_gift(p, ids, d)
        \/ storage_fault(p)
        \/ commit(p)
        \/ Return(p)

SpecBulk == InitRender /\ [][NextBulk]_vars

\* lookups logged one after the other, a statement of which may raise
NextLog ==
    \/ Tick
    \/ \E p \in OneAtATime :
        \/ \E u \in UserIds, i \in InputTexts, r \in ResultTexts : log_lookup(p, u, i, r)
        \/ log_lookup_fault(p)
        \/ commit(p)
        \/ Return(p)

SpecLog == Init /\ [][NextLog]_vars

\* lookups sent by users and admins, one after the other
NextLookup ==
    \/ Tick
    \/ \E p \in OneAtATime :
        \/ \E u \in UserIds, admin \in BOOLEAN : process_api_call_check(p, u, admin)
        \/ \E outcome \in ApiOutcomes : process_api_call_fetch(p, outcome)
        \/ process_api_call_debit(p)
        \/ process_api_call_log(p)
        \/ process_api_call_active(p)
        \/ Return(p)

SpecLookup == Init /\ [][NextLookup]_vars

\* expiry strings parsed one after the other
NextParse ==
    \E p \in OneAtATime :
        \/ \E time_str \in TimeStrings : parse_time_string_call(p, time_str)
        \/ Return(p)

SpecParse == Init /\ [][NextParse]_vars

\* /start sent by new and by registered users, one after the other
NextStart ==
    \/ Tick
    \/ \E p \in OneAtATime :
        \/ \E u \in UserIds, ref \in {0} \cup UserIds : start_command_begin(p, u, ref)
        \/ start_command_add_user(p)
        \/ start_command_bonus(p)
        \/ Return(p)

SpecStart == InitUsers /\ [][NextStart]_vars

\* codes created by an admin and redeemed by users through the Redeem
\* button, one handler after the other
NextRedeemChat ==
    \E p \in OneAtATime :
        \/ \E c \in CodeIds, a \in Amounts, m \in MaxUsesSet, e \in ExpirySet :
               create_redeem_code_check(p, c, a, m, e)
        \/ create_redeem_code_insert(p)
        \/ \E u \in UserIds : redeem_start(p, u)
        \/ \E u \in UserIds, c \in CodeIds : handle_inputs_redeem(p, u, c)
        \/ redeem_code_db_expiry(p)
        \/ redeem_code_db_update_code(p)
        \/ redeem_code_db_update_user(p)
        \/ redeem_code_db_insert_log(p)
        \/ redeem_code_db_commit(p)
        \/ handle_inputs_redeem_reply(p)
        \/ commit(p)
        \/ handler_return(p)

SpecRedeemChat == Init /\ [][NextRedeemChat]_vars

\* users banned and unbanned by an admin while they use /start, the Redeem
\* button, the service buttons and the texts that follow
BanButtons == {"num", "ff_info"}

NextBan ==
    \E p \in OneAtATime :
        \/ \E u \in UserIds, status \in BOOLEAN : set_ban_status(p, u, status)
        \/ \E c \in CodeIds, a \in Amounts, m \in MaxUsesSet :
               create_redeem_code_check(p, c, a, m, 0)
        \/ create_redeem_code_insert(p)
        \/ \E u \in UserIds, ref \in {0} \cup UserIds : start_command_begin(p, u, ref)
        \/ start_command_add_user(p)
        \/ start_command_bonus(p)
        \/ \E u \in UserIds : redeem_start(p, u)
        \/ \E u \in UserIds, c \in CodeIds : handle_inputs_redeem(p, u, c)
        \/ redeem_code_db_expiry(p)
        \/ redeem_code_db_update_code(p)
        \/ redeem_code_db_update_user(p)
        \/ redeem_code_db_insert_log(p)
        \/ redeem_code_db_commit(p)
        \/ handle_inputs_redeem_reply(p)
        \/ \E u \in UserIds, key \in BanButtons : ask_api_input(p, u, key, TRUE)
        \/ \E u \in UserIds : handle_inputs_api(p, u)
        \/ \E outcome \in ApiOutcomes : process_api_call_fetch(p, outcome)
        \/ process_api_call_debit(p)
        \/ process_api_call_log(p)
        \/ process_api_call_active(p)
        \/ handle_inputs_api_done(p)
        \/ commit(p)
        \/ handler_return(p)

SpecBan == InitAdmins /\ [][NextBan]_vars

\* registrations, redemptions and lookups of two handlers at a time; no admin
\* removes credits
NextRace ==
    \E p \in Procs :
        \/ \E u \in UserIds, ref \in {0} \cup UserIds : start_command_begin(p, u, ref)
        \/ start_command_add_user(p)
        \/ start_command_bonus(p)
        \/ \E c \in CodeIds, a \in Amounts, m \in MaxUsesSet :
               create_redeem_code_check(p, c, a, m, 0)
        \/ create_redeem_code_insert(p)
        \/ \E u \in UserIds, c \in CodeIds : redeem_code_db_read(p, u, c)
        \/ redeem_code_db_expiry(p)
        \/ redeem_code_db_except(p)
        \/ redeem_code_db_update_code(p)
        \/ redeem_code_db_update_user(p)
        \/ redeem_code_db_insert_log(p)
        \/ redeem_code_db_commit(p)
        \/ \E u \in UserIds : process_api_call_check(p, u, is_user_admin(db, u))
        \/ \E outcome \in ApiOutcomes : process_api_call_fetch(p, outcome)
        \/ process_api_call_debit(p)
        \/ process_api_call_log(p)
        \/ process_api_call_active(p)
        \/ commit(p)
        \/ Return(p)

SpecRace == InitBalances /\ [][NextRace]_vars

\* admins creating codes with /customcode and /gencode while the owner
\* removes admins
NextCodes ==
    \E p \in OneAtATime :
        \/ \E u \in UserIds : remove_admin(p, u)
        \/ \E u \in UserIds : custom_code_command(p, u)
        \/ \E u \in UserIds, c \in CodeIds, a \in AmountInputs, m \in MaxUsesInputs,
              e \in ExpirySet : handle_inputs_custom_code(p, u, c, a, m, e)
        \/ \E u \in UserIds : handle_inputs_custom_code_error(p, u)
        \/ \E u \in UserIds, c \in CodeIds, a \in AmountInputs, m \in MaxUsesInputs,
              e \in ExpirySet : generate_random_code(p, u, c, a, m, e)
        \/ create_redeem_code_insert(p)
        \/ code_created_reply(p)
        \/ commit(p)
        \/ handler_return(p)

SpecCodes == InitAdmins /\ [][NextCodes]_vars

\* conversations opened by users and admins and the texts sent into them
NextCancel ==
    \E p \in OneAtATime :
        \/ \E u \in UserIds : broadcast_trigger(p, u)
        \/ \E u \in UserIds : custom_code_command(p, u)
        \/ \E u \in UserIds : redeem_start(p, u)
        \/ \E u \in UserIds, key \in BanButtons : ask_api_input(p, u, key, TRUE)
        \/ \E u \in UserIds, text \in Texts : on_message(p, u, text)
        \/ handler_return(p)

SpecCancel == InitAdmins /\ [][NextCancel]_vars

\* a database file that holds a code with an expiry whose created_date may
\* be no timestamp
StoredCodes(n) ==
    {[Registered(n) EXCEPT !.codes[1] = NewCodeRow(a, m, 1, d)] :
       a \in Amounts, m \in MaxUsesSet, d \in {Malformed, 0}}

InitStored ==
    /\ tz = 0
    /\ RENDER = FALSE
    /\ \E n \in 1..MaxUser : db \in StoredCodes(n)
    /\ Quiet

\* redemptions and sweeps of stored codes as time passes
NextStored ==
    \/ Tick
    \/ \E p \in OneAtATime :
        \/ \E u \in UserIds, c \in CodeIds : redeem_code_db_read(p, u, c)
        \/ redeem_code_db_expiry(p)
        \/ redeem_code_db_update_code(p)
        \/ redeem_code_db_update_user(p)
        \/ redeem_code_db_insert_log(p)
        \/ redeem_code_db_commit(p)
        \/ cleanup_expired_codes(p)
        \/ commit(p)
        \/ Return(p)

SpecStored == InitStored /\ [][NextStored]_vars

\* codes created, redeemed and swept by two calls at a time, with storage
\* faults in redeem_code_db; no user and no code is deleted
NextKept ==
    \/ NextSweep
    \/ \E p \in Procs : redeem_code_db_fault(p)

SpecKept == Init /\ [][NextKept]_vars

\* the service buttons of the main menu and the text that follows them
NextServices ==
    \E p \in OneAtATime :
        \/ \E u \in UserIds, key \in ServiceKeys, member \in BOOLEAN :
               ask_api_input(p, u, key, member)
        \/ \E u \in UserIds : handle_inputs_api(p, u)
        \/ \E outcome \in ApiOutcomes : process_api_call_fetch(p, outcome)
        \/ process_api_call_debit(p)
        \/ process_api_call_log(p)
        \/ process_api_call_active(p)
        \/ handle_inputs_api_done(p)
        \/ handler_return(p)

SpecServices == InitAdmins /\ [][NextServices]_vars

\* ------------------------------------------------------------------- claims
\* What a redeem_code_db call found in the rows it read, stated from the
\* contract: s is the call's snapshot, t the minute of its expiry check.
Done(p) == pc[p] = "done"
IsRedeem(p) == call[p].op = "redeem_code_db"
Kind(p) == result[p].kind
UserExists(p) == snap[p].users[call[p].user_id].present
Claimed(p) == <<call[p].user_id, call[p].code>> \in snap[p].logs
CodeRow(p) == snap[p].codes[call[p].code]
CodeExists(p) == CodeRow(p).present
CodeActive(p) == CodeRow(p).is_active
UsesLeft(p) == CodeRow(p).current_uses < CodeRow(p).max_uses
HasExpiry(p) == CodeRow(p).expiry_minutes > 0
ExpiryTime(p) == CodeRow(p).created_date + CodeRow(p).expiry_minutes
Eligible(p) ==
    UserExists(p) /\ ~Claimed(p) /\ CodeExists(p) /\ CodeActive(p) /\ UsesLeft(p)
Rejections ==
    {"user_not_found", "already_claimed", "invalid", "inactive", "limit_reached",
     "expired"}

\* C1: for any user U and code C at most one redeem_code_db(U, C) call is
\* credited, and every other call that could have been credited (it passed
\* every check on the rows it read) returns already_claimed, never an error.
C1_SingleClaim ==
    \A p \in Procs :
        (Done(p) /\ IsRedeem(p)) =>
            /\ credited[call[p].user_id][call[p].code] <= 1
            /\ ( /\ credited[call[p].user_id][call[p].code] = 1
                 /\ Eligible(p)
                 /\ HasExpiry(p) => chk[p] < ExpiryTime(p)
                 /\ Kind(p) # "credited" )
               => Kind(p) = "already_claimed"

\* C2: in every reachable state every code has 0 <= current_uses <= max_uses.
C2_UsesWithinMax ==
    \A c \in CodeIds :
        db.codes[c].present =>
            /\ 0 <= db.codes[c].current_uses
            /\ db.codes[c].current_uses <= db.codes[c].max_uses

\* two distinct users read the same use count of the same code before either
\* wrote; one was credited and took the last use, the other was turned away
C2_Witness ==
    \E p \in Procs, q \in Procs :
        /\ p # q /\ Done(p) /\ Done(q) /\ IsRedeem(p) /\ IsRedeem(q)
        /\ call[p].code = call[q].code
        /\ call[p].user_id # call[q].user_id
        /\ Kind(p) = "credited" /\ Kind(q) = "error"
        /\ CodeRow(p).current_uses = CodeRow(q).current_uses
        /\ db.codes[call[p].code].current_uses = db.codes[call[p].code].max_uses

\* C3: update_credits calls on a user with balance B leave the balance at B
\* plus the sum of their deltas and total_earned raised by the sum of the
\* positive deltas; a call whose UPDATE is not committed yet does not count.
Pending(u) ==
    IF writer # 0 /\ call[writer].op = "update_credits" /\ call[writer].user_id = u
    THEN call[writer].amount
    ELSE 0

C3_NoLostUpdate ==
    \A u \in UserIds :
        db.users[u].present =>
            /\ db.users[u].credits = START_CREDITS + owed[u] - Pending(u)
            /\ db.users[u].total_earned =
                  owedPos[u] - (IF Pending(u) > 0 THEN Pending(u) ELSE 0)

\* a credit and a debit on the same user have both been committed, the second
\* one started while the first call had not returned yet
C3_Witness ==
    \E u \in UserIds, p \in Procs, q \in Procs :
        /\ p # q /\ Done(p) /\ Done(q)
        /\ call[p].op = "update_credits" /\ call[q].op = "update_credits"
        /\ call[p].user_id = u /\ call[q].user_id = u
        /\ call[p].amount > 0 /\ call[q].amount < 0
        /\ db.users[u].credits = START_CREDITS + call[p].amount + call[q].amount
        /\ db.users[u].credits < 0 + START_CREDITS
        /\ db.users[u].total_earned = call[p].amount

\* C4: every step of a redeem_code_db call either leaves the three tables as
\* they are or, when the call is credited, applies use count, balance,
\* total_earned and redemption record together; a call that fails after it
\* wrote leaves the tables exactly as it read them.
RedeemDelta(p) ==
    LET u == call[p].user_id
        c == call[p].code
        a == db.codes[c].amount
    IN  /\ db'.codes[c].current_uses = db.codes[c].current_uses + 1
        /\ db'.users[u].credits = db.users[u].credits + a
        /\ db'.users[u].total_earned = db.users[u].total_earned + a
        /\ <<u, c>> \notin db.logs
        /\ db'.logs = db.logs \cup {<<u, c>>}

C4_AllOrNothing ==
    [][\A p \in Procs :
          (IsRedeem(p) /\ pc'[p] # pc[p]) =>
              /\ IF result'[p].kind = "credited" THEN RedeemDelta(p) ELSE db' = db
              /\ (result'[p].kind = "error" /\ work[p] # snap[p]) => db' = snap[p]
      ]_vars

\* the INSERT INTO redeem_logs failed after both UPDATEs had run
C4_Witness ==
    \E p \in Procs :
        /\ Done(p) /\ IsRedeem(p) /\ Kind(p) = "error"
        /\ work[p].codes[call[p].code].current_uses = CodeRow(p).current_uses + 1
        /\ work[p].users[call[p].user_id].credits =
              snap[p].users[call[p].user_id].credits + CodeRow(p).amount
        /\ <<call[p].user_id, call[p].code>> \notin work[p].logs
        /\ db = snap[p]

\* C5: the step that credits a redeem_code_db(U, C) call returns the code's
\* amount (> 0), raises C.current_uses by 1 and U's credits and total_earned
\* by the amount, sets U.last_active to the time of the call, adds the record
\* (U, C), and changes no other user, code or record.
C5_SuccessEffect ==
    [][\A p \in Procs :
          (result'[p].kind = "credited" /\ result[p].kind # "credited") =>
              LET u == call[p].user_id
                  c == call[p].code
                  a == db.codes[c].amount
              IN  /\ a > 0
                  /\ result'[p].amount = a
                  /\ db'.codes = [db.codes EXCEPT ![c].current_uses = @ + 1]
                  /\ db'.users = [db.users EXCEPT
                                    ![u].credits = @ + a,
                                    ![u].total_earned = @ + a,
                                    ![u].last_active = db'.users[u].last_active]
                  /\ db'.users[u].last_active \in chk[p]..now
                  /\ <<u, c>> \notin db.logs
                  /\ db'.logs = db.logs \cup {<<u, c>>}
      ]_vars

\* a credited call, after minute 0, with another registered user left alone
C5_Witness ==
    \E p \in Procs, v \in UserIds :
        /\ Done(p) /\ IsRedeem(p) /\ Kind(p) = "credited"
        /\ v # call[p].user_id
        /\ db.users[v] = NewUserRow(0, 0)
        /\ db.users[call[p].user_id].credits = START_CREDITS + result[p].amount
        /\ db.users[call[p].user_id].total_earned = result[p].amount
        /\ db.users[call[p].user_id].last_active > 0
        /\ db.logs = {<<call[p].user_id, call[p].code>>}

\* C6: the step in which redeem_code_db returns a named rejection leaves the
\* users, redeem_codes and redeem_logs tables unchanged.
C6_RejectionNoEffect ==
    [][\A p \in Procs :
          (result'[p].kind \in Rejections /\ result[p].kind = "none") => db' = db
      ]_vars

\* a call rejected as expired on a database that holds a redemption record
C6_Witness ==
    \E p \in Procs :
        /\ Done(p) /\ IsRedeem(p) /\ Kind(p) = "expired"
        /\ db.logs # {}

\* C7: redeem_code_db returns the outcome of the first failing check in the
\* order user exists, not already claimed, code exists, code active,
\* uses < max uses, not expired.
C7_FirstFailingCheck ==
    \A p \in Procs :
        (Done(p) /\ IsRedeem(p) /\ Kind(p) # "error") =>
            /\ Kind(p) = "user_not_found" <=> ~UserExists(p)
            /\ Kind(p) = "already_claimed" <=> (UserExists(p) /\ Claimed(p))
            /\ Kind(p) = "invalid" <=>
                  (UserExists(p) /\ ~Claimed(p) /\ ~CodeExists(p))
            /\ Kind(p) = "inactive" <=>
                  (UserExists(p) /\ ~Claimed(p) /\ CodeExists(p) /\ ~CodeActive(p))
            /\ Kind(p) = "limit_reached" <=>
                  (UserExists(p) /\ ~Claimed(p) /\ CodeExists(p) /\ CodeActive(p)
                   /\ ~UsesLeft(p))
            /\ Kind(p) \in {"expired", "credited"} <=> Eligible(p)
            /\ Kind(p) = "expired" => (HasExpiry(p) /\ chk[p] >= ExpiryTime(p))
            /\ Kind(p) = "credited" => (HasExpiry(p) => chk[p] <= ExpiryTime(p))

\* an inactive code that is also at its limit gives inactive
C7_Witness ==
    \E p \in Procs :
        /\ Done(p) /\ IsRedeem(p) /\ Kind(p) = "inactive"
        /\ UserExists(p) /\ ~Claimed(p)
        /\ ~UsesLeft(p)

\* C8 as claimed: after N credited redemptions of a code with max_uses = N,
\* every later attempt by an existing user who has not claimed it returns
\* limit_reached.
C8_LimitReached ==
    \A p \in Procs :
        (Done(p) /\ IsRedeem(p) /\ seen[p].full /\ UserExists(p) /\ ~Claimed(p))
            => Kind(p) = "limit_reached"

\* C8 as amended: ... returns limit_reached as long as the code is still
\* active when the attempt reads it.
C8_LimitReachedWhileActive ==
    \A p \in Procs :
        (Done(p) /\ IsRedeem(p) /\ seen[p].full /\ UserExists(p) /\ ~Claimed(p)
         /\ CodeActive(p))
            => Kind(p) = "limit_reached"

\* the code was used up by another user; the attempt returned limit_reached
C8_Witness ==
    \E p \in Procs :
        /\ Done(p) /\ IsRedeem(p) /\ seen[p].full
        /\ UserExists(p) /\ ~Claimed(p) /\ CodeActive(p)
        /\ wins[call[p].code] = CodeRow(p).max_uses
        /\ \E v \in UserIds : <<v, call[p].code>> \in snap[p].logs
        /\ Kind(p) = "limit_reached"

\* C9: with expiry_minutes = E > 0 and creation time T, a redemption that
\* passes the earlier checks is credited only when the check runs strictly
\* before T + E and returns expired for every now >= T + E.
C9_StrictExpiry ==
    \A p \in Procs :
        (Done(p) /\ IsRedeem(p) /\ Eligible(p) /\ HasExpiry(p)
         /\ Kind(p) \in {"credited", "expired"})
            => (Kind(p) = "credited" <=> chk[p] < ExpiryTime(p))

\* C10 as claimed: once a code string has had is_active = 0, no later
\* operation makes it active again and no later redemption of it is credited.
C10_NeverRedeemableAgain ==
    /\ \A c \in CodeIds :
          dead[c] => ~(db.codes[c].present /\ db.codes[c].is_active)
    /\ \A p \in Procs :
          (Done(p) /\ IsRedeem(p) /\ seen[p].dead) => Kind(p) # "credited"

\* C10 as amended: while a code row exists, is_active never goes from 0 back
\* to 1, and an attempt by a not-yet-claiming existing user that reads the
\* row with is_active = 0 returns inactive.
InactiveRead(p) ==
    (Done(p) /\ IsRedeem(p) /\ UserExists(p) /\ ~Claimed(p) /\ CodeExists(p)
     /\ ~CodeActive(p))
        => Kind(p) = "inactive"

C10_InactiveWhileRowExists ==
    [][ /\ \A c \in CodeIds :
              (db.codes[c].present /\ ~db.codes[c].is_active /\ db'.codes[c].present)
                  => ~db'.codes[c].is_active
        /\ \A p \in Procs : InactiveRead(p)'
      ]_vars

\* a code deactivated earlier, with uses left and no expiry, turned a new
\* user away as inactive
C10_Witness ==
    \E p \in Procs :
        /\ Done(p) /\ IsRedeem(p) /\ seen[p].dead
        /\ UserExists(p) /\ ~Claimed(p) /\ CodeExists(p)
        /\ UsesLeft(p) /\ ~HasExpiry(p)
        /\ Kind(p) = "inactive"

\* the redeem call of p read a code row whose expiry window had elapsed, as a
\* user who exists and has not claimed the code
ReadLate(p) ==
    /\ Done(p) /\ IsRedeem(p)
    /\ UserExists(p) /\ ~Claimed(p) /\ CodeExists(p)
    /\ seen[p].late

\* C11 as claimed: a redemption that reads a code whose expiry window has
\* elapsed returns expired when the row it read was still active and inactive
\* when the sweep had already flipped it.
C11_ExpiredOrInactive ==
    \A p \in Procs :
        ReadLate(p) => Kind(p) = IF CodeActive(p) THEN "expired" ELSE "inactive"

\* C11 amended: such a redemption is never credited; it returns inactive when
\* the row it read was inactive, limit_reached when the row was active but
\* used up, and expired otherwise, whatever the sweep does meanwhile.
C11_NeverCreditedLate ==
    \A p \in Procs :
        ReadLate(p) =>
            /\ Kind(p) # "credited"
            /\ Kind(p) = IF ~CodeActive(p) THEN "inactive"
                         ELSE IF ~UsesLeft(p) THEN "limit_reached"
                         ELSE "expired"

\* a redemption read the elapsed code while it was active, the sweep flipped
\* and committed it, and the redemption then returned expired
C11_Witness ==
    \E p \in Procs, q \in Procs :
        /\ ReadLate(p) /\ CodeActive(p) /\ Kind(p) = "expired"
        /\ ~db.codes[call[p].code].is_active
        /\ call[q].op = "cleanup_expired_codes" /\ Done(q)
        /\ result[q] = Res("changes", 1)

\* the codes the sweep is to flip at this moment: active, with a positive
\* expiry, created more than expiry_minutes ago on the clock that stamped them
DueCodes ==
    {c \in CodeIds : /\ db.codes[c].present
                     /\ db.codes[c].is_active
                     /\ db.codes[c].expiry_minutes > 0
                     /\ db.codes[c].created_date + db.codes[c].expiry_minutes
                            < datetime_now}

\* C12 as claimed: the UPDATE of cleanup_expired_codes flips exactly the due
\* codes, leaves every other column, the users and the redemption records as
\* they are, and reports the number of due codes (0 on an immediate rerun).
C12_SweepExact ==
    [][\A p \in Procs :
          (pc[p] = "idle" /\ call'[p].op = "cleanup_expired_codes") =>
              /\ work'[p].users = db.users
              /\ work'[p].logs = db.logs
              /\ \A c \in CodeIds :
                    work'[p].codes[c] = IF c \in DueCodes
                                        THEN [db.codes[c] EXCEPT !.is_active = FALSE]
                                        ELSE db.codes[c]
              /\ result'[p] = Res("changes", Cardinality(DueCodes))]_vars

\* ---- registrations
IsAddUser(p) == call[p].op = "add_user"
\* the step in which the add_user call of p returns False
AddUserFails(p) ==
    /\ pc[p] # "done" /\ pc'[p] = "done"
    /\ IsAddUser(p)' /\ result'[p].kind = "False"
\* the step in which the add_user call of p commits
AddUserCommits(p) ==
    pc[p] = "commit" /\ pc'[p] = "done" /\ IsAddUser(p)
OtherUsersKept(keep) ==
    \A w \in UserIds \ keep : db'.users[w] = db.users[w]

\* C13: add_user on an identity that has a row returns False at once and
\* changes nothing; no add_user call that returns False changes the users
\* table (the row keeps balance and referrer, a supplied referrer has no bonus).
C13_ExistingUntouched ==
    [][\A p \in Procs :
          /\ (pc[p] = "idle" /\ IsAddUser(p)' /\ db.users[call'[p].user_id].present)
                => (AddUserFails(p) /\ writer' = writer)
          /\ AddUserFails(p) => db' = db]_vars

\* an add_user call naming an existing referrer returned False for an existing
\* identity and the referrer still has no bonus
C13_Witness ==
    \E p \in Procs :
        /\ Done(p) /\ IsAddUser(p) /\ Kind(p) = "False"
        /\ call[p].referrer_id # 0
        /\ call[p].referrer_id # call[p].user_id
        /\ db.users[call[p].user_id].present
        /\ db.users[call[p].user_id].referrer_id = 0
        /\ db.users[call[p].referrer_id].present
        /\ db.users[call[p].referrer_id].credits = 5
        /\ db.users[call[p].referrer_id].total_earned = 0

\* C14: when add_user(V, name, R) with V new and R an existing user commits,
\* R has 3 more credits and 3 more total_earned, V exists with credits 5 and
\* total_earned 0, and no other user row changed.
C14_ReferralBonus ==
    [][\A p \in Procs :
          LET v == call[p].user_id
              r == call[p].referrer_id
          IN  (/\ AddUserCommits(p)
               /\ r # 0
               /\ snap[p].users[r].present
               /\ db.users[r].present)
                  => /\ ~db.users[v].present
                     /\ db'.users[v].present
                     /\ db'.users[v].credits = 5
                     /\ db'.users[v].total_earned = 0
                     /\ db'.users[r].present
                     /\ db'.users[r].credits = db.users[r].credits + 3
                     /\ db'.users[r].total_earned = db.users[r].total_earned + 3
                     /\ db'.users[r].referrer_id = db.users[r].referrer_id
                     /\ OtherUsersKept({v, r})
                     /\ result'[p].kind = "True"]_vars

C14_Witness ==
    \E p \in Procs :
        LET v == call[p].user_id
            r == call[p].referrer_id
        IN  /\ Done(p) /\ IsAddUser(p) /\ Kind(p) = "True"
            /\ r # 0 /\ snap[p].users[r].present
            /\ db.users[r].credits = 8 /\ db.users[r].total_earned = 3
            /\ db.users[v].present /\ db.users[v].credits = 5
            /\ db.users[v].referrer_id = r

\* users that name r as their referrer
ReferredBy(r) ==
    {v \in UserIds \ {r} : db.users[v].present /\ db.users[v].referrer_id = r}

\* C15: of the add_user calls that finished for one identity at most one
\* returned True; every user's bonus total is at most 3 per row that names
\* them as referrer and their balance is 5 plus that total; and a call whose
\* INSERT fails leaves the database, the referrer included, as it was.
C15_BonusOnce ==
    [][/\ \A p \in Procs : \A q \in Procs \ {p} :
            (Done(p) /\ Done(q) /\ IsAddUser(p) /\ IsAddUser(q)
             /\ call[p].user_id = call[q].user_id)'
                => ~(Kind(p) = "True" /\ Kind(q) = "True")'
       /\ \A r \in UserIds :
            db'.users[r].present =>
                /\ db'.users[r].total_earned <= 3 * Cardinality(ReferredBy(r)')
                /\ db'.users[r].credits = 5 + db'.users[r].total_earned
       /\ \A p \in Procs :
            AddUserFails(p) => (db' = db /\ writer' = writer)]_vars

\* two calls for the same new identity and the same referrer both passed the
\* existence check; one returned True, the other False, one bonus was paid
C15_Witness ==
    \E p \in Procs : \E q \in Procs \ {p} :
        LET v == call[p].user_id
            r == call[p].referrer_id
        IN  /\ Done(p) /\ Done(q) /\ IsAddUser(p) /\ IsAddUser(q)
            /\ call[q].user_id = v /\ call[q].referrer_id = r /\ r # 0
            /\ snap[p].users[r].present /\ ~snap[p].users[v].present
            /\ snap[q].users[r].present /\ ~snap[q].users[v].present
            /\ Kind(p) = "True" /\ Kind(q) = "False"
            /\ db.users[v].present
            /\ db.users[r].credits = 8 /\ db.users[r].total_earned = 3

C17_ReferrerExists ==
    \A u \in UserIds :
        db.users[u].present =>
            \/ db.users[u].referrer_id = 0
            \/ db.users[db.users[u].referrer_id].present

\* C18 as claimed: no user row names itself as referrer.
C18_NoSelfReferral ==
    \A u \in UserIds :
        db.users[u].present => db.users[u].referrer_id # u

\* ---- balances
\* C19: when update_credits(U, d) on an existing user commits, credits has
\* grown by d (below 0 when the debit exceeds the balance), total_earned has
\* grown by d when d > 0 and is unchanged when d <= 0, and the call returns True.
C19_UpdateCredits ==
    [][\A p \in Procs :
          LET u == call[p].user_id
              d == call[p].amount
          IN  (/\ pc[p] = "commit" /\ pc'[p] = "done"
               /\ call[p].op = "update_credits"
               /\ db.users[u].present)
                  => /\ db'.users[u].present
                     /\ db'.users[u].credits = db.users[u].credits + d
                     /\ db'.users[u].total_earned =
                           db.users[u].total_earned + (IF d > 0 THEN d ELSE 0)
                     /\ OtherUsersKept({u})
                     /\ result'[p].kind = "True"]_vars

\* a debit larger than the balance was applied and left the balance negative
C19_Witness ==
    \E p \in Procs :
        /\ Done(p) /\ call[p].op = "update_credits" /\ Kind(p) = "True"
        /\ call[p].amount < 0
        /\ db.users[call[p].user_id].present
        /\ db.users[call[p].user_id].credits < 0
        /\ db.users[call[p].user_id].total_earned = 0

\* C20: no step lowers the total_earned of a user that has a row before and
\* after the step.
C20_EarnedMonotone ==
    [][\A u \in UserIds :
          (db.users[u].present /\ db'.users[u].present)
              => db'.users[u].total_earned >= db.users[u].total_earned]_vars

\* a user with a positive lifetime counter was debited or reset and the
\* counter stayed
C20_Witness ==
    \E p \in Procs :
        LET u == call[p].user_id
        IN  /\ Done(p)
            /\ \/ call[p].op = "reset_user_credits"
               \/ call[p].op = "update_credits" /\ call[p].amount < 0
            /\ snap[p].users[u].present /\ snap[p].users[u].total_earned > 0
            /\ db.users[u].present
            /\ db.users[u].credits < snap[p].users[u].credits
            /\ db.users[u].total_earned = snap[p].users[u].total_earned

IsCreate(p) == call[p].op = "create_redeem_code"
Returns(p) == pc[p] # "done" /\ pc'[p] = "done"
ValidationMessages == {"Amount must be positive", "Max uses must be positive"}

\* C21: a create_redeem_code call returns (False, message) and leaves the
\* redeem_codes table as it was when the code string exists or amount or
\* max_uses is not positive, the message being the validation message in the
\* latter two cases; any other call returns (True, message) and adds exactly
\* one row, which is active and has current_uses = 0.
C21_CreateContract ==
    [][\A p \in Procs :
        (Returns(p) /\ IsCreate(p)) =>
            LET c == call[p].code
                bad == call[p].amount <= 0 \/ call[p].max_uses <= 0
            IN  IF db.codes[c].present \/ bad
                THEN /\ result'[p].kind = "False"
                     /\ db'.codes = db.codes
                     /\ bad => result'[p].msg \in ValidationMessages
                ELSE /\ result'[p].kind = "True"
                     /\ db'.codes[c].present
                     /\ db'.codes[c].is_active
                     /\ db'.codes[c].current_uses = 0
                     /\ \A k \in CodeIds \ {c} : db'.codes[k] = db.codes[k]]_vars

NeverExpires(row) == row.present /\ row.expiry_minutes = 0

\* C22: a code stored with expiry_minutes 0 (or NULL) is never made unusable
\* by the passing of time: no step of the insert trigger or of the sweep
\* turns its is_active off, and no redeem_code_db call on it returns expired.
C22_NoExpiryNeverLapses ==
    [][/\ \A c \in CodeIds :
            (NeverExpires(db.codes[c]) /\ db.codes[c].is_active)
                => db'.codes[c].is_active
       /\ \A p \in Procs :
            ( /\ pc[p] # "done" /\ pc'[p] = "done"
              /\ call'[p].op = "redeem_code_db"
              /\ NeverExpires(snap'[p].codes[call'[p].code]) )
                => result'[p].kind # "expired"]_vars

\* a code without expiry is credited two minutes after its creation, longer
\* than any expiry window, while a sweep has run and left it active
C22_Witness ==
    \E p \in Procs : \E q \in Procs \ {p} :
        /\ Done(p) /\ IsRedeem(p) /\ Kind(p) = "credited"
        /\ NeverExpires(CodeRow(p))
        /\ chk[p] >= CodeRow(p).created_date + MaxTime
        /\ Done(q) /\ call[q].op = "cleanup_expired_codes"
        /\ db.codes[call[p].code].is_active

FailureSignals == {"False", "error"}

\* C23: a call of add_user, update_credits, set_ban_status,
\* create_redeem_code, redeem_code_db or bulk_update_credits that meets a
\* storage fault returns its failure signal and leaves the stored state as it
\* was before the call: the database changes only in the step in which a call
\* returns a success value, and a call that returns a failure signal holds no
\* lock and has changed nothing.
C23_FaultLeavesStoreAsBefore ==
    [][\A p \in OneAtATime :
        /\ (Returns(p) /\ result'[p].kind \in FailureSignals)
              => (db' = db /\ writer' = 0)
        /\ db' # db
              => (Returns(p) /\ result'[p].kind \notin FailureSignals)]_vars

\* a call whose statements had written rows failed and none of them is stored
C23_Witness ==
    \E p \in OneAtATime :
        /\ Done(p)
        /\ call[p].op \in {"update_credits", "bulk_update_credits",
                           "set_ban_status", "redeem_code_db"}
        /\ Kind(p) \in FailureSignals
        /\ work[p] # snap[p]
        /\ db = snap[p]

\* C24: a redemption record is deleted together with its user and with its
\* code: every stored record belongs to a stored user and a stored code (so a
\* code string created again after its deletion starts with no record).
C24_RecordsDeletedWithOwner ==
    \A l \in db.logs :
        /\ db.users[l[1]].present
        /\ db.codes[l[2]].present

Named(ids, u) == Cardinality({i \in DOMAIN ids : ids[i] = u})
Balances(users) == [u \in UserIds |-> users[u].credits]

\* what C25 says of one step
BulkGiftStep ==
    \A p \in Procs :
        (Returns(p) /\ call'[p].op = "bulk_update_credits") =>
            LET ids == call'[p].user_ids
                d == call'[p].amount
            IN  IF Len(ids) > BATCH_LIMIT
                THEN /\ result'[p].kind # "True"
                     /\ Balances(db'.users) = Balances(db.users)
                ELSE \/ Balances(db'.users) = Balances(db.users)
                     \/ Balances(db'.users) =
                           [u \in UserIds |->
                              IF db.users[u].present
                              THEN db.users[u].credits + d * Named(ids, u)
                              ELSE db.users[u].credits]

\* C25: a bulk gift naming more than 50 user ids never succeeds and changes
\* no balance; a bulk gift within the limit adds the amount to the balance of
\* every named user that exists, once per naming, or changes no balance.
C25_BulkGift == [][BulkGiftStep]_vars

IsPrefix(s, t) == Len(s) <= Len(t) /\ \A i \in 1..Len(s) : s[i] = t[i]
AtMost(n, m) == IF n < m THEN n ELSE m

\* C30: every row of lookup_logs has an input of at most 500 characters and
\* a result of at most 2000 characters; the row a log_lookup call stores holds
\* the first 500 characters of the input and the first 2000 of the result it
\* was given; a step only appends to lookup_logs, it never changes or removes
\* a row.
C30_LookupRows ==
    [][/\ IsPrefix(db.lookups, db'.lookups)
       /\ \A i \in 1..Len(db'.lookups) :
            /\ Len(db'.lookups[i].input_data) <= INPUT_LIMIT
            /\ Len(db'.lookups[i].result) <= RESULT_LIMIT
       /\ \A p \in Procs :
            (Returns(p) /\ call'[p].op = "log_lookup" /\ result'[p].kind = "True") =>
                LET row == db'.lookups[Len(db'.lookups)]
                IN  /\ Len(db'.lookups) = Len(db.lookups) + 1
                    /\ IsPrefix(row.input_data, call'[p].input_data)
                    /\ IsPrefix(row.result, call'[p].result)
                    /\ Len(row.input_data) = AtMost(Len(call'[p].input_data), INPUT_LIMIT)
                    /\ Len(row.result) = AtMost(Len(call'[p].result), RESULT_LIMIT)]_vars

\* a call given texts longer than the limits has stored its row after another
\* row, which is still there
C30_Witness ==
    \E p \in Procs :
        /\ Done(p) /\ call[p].op = "log_lookup" /\ Kind(p) = "True"
        /\ Len(call[p].input_data) > INPUT_LIMIT
        /\ Len(call[p].result) > RESULT_LIMIT
        /\ Len(db.lookups) = 2
        /\ Len(db.lookups[2].input_data) = INPUT_LIMIT
        /\ Len(db.lookups[2].result) = RESULT_LIMIT

\* what C26 says of the step in which a lookup of a non-admin user ends
LookupStep ==
    \A p \in OneAtATime :
        (Returns(p) /\ call'[p].op = "process_api_call" /\ ~call'[p].admin) =>
            LET u == call'[p].user_id
                before == snap'[p].users[u]
                after == db'.users[u]
            IN  IF before.present /\ before.credits >= 1
                THEN /\ result'[p].kind \in ApiOutcomes
                     /\ after.credits = before.credits
                                          - (IF result'[p].kind = "ok" THEN 1 ELSE 0)
                ELSE /\ result'[p].kind = "insufficient"
                     /\ after = before

\* C26: a lookup sent by a non-admin user whose balance is at least 1 goes to
\* the API and takes exactly 1 from the balance when it succeeds; one that
\* ends in an API or server error, or is refused for lack of credits, leaves
\* the balance as it was.
C26_LookupDebit == [][LookupStep]_vars

IsParse(p) == call[p].op = "parse_time_string"
Parsed(p, str) == Done(p) /\ IsParse(p) /\ call[p].input_data = str

\* C27: parse_time_string returns 90 for "1h30m", 120 for "2h", 45 for "45",
\* 30 for "30m", 1440 for "24h", and None for "", for "none" in any letter
\* case and for "0h0m".
C27_Examples ==
    \A p \in Procs :
        /\ Parsed(p, <<"1", "h", "3", "0", "m">>) => result[p] = Res("minutes", 90)
        /\ Parsed(p, <<"2", "h">>) => result[p] = Res("minutes", 120)
        /\ Parsed(p, <<"4", "5">>) => result[p] = Res("minutes", 45)
        /\ Parsed(p, <<"3", "0", "m">>) => result[p] = Res("minutes", 30)
        /\ Parsed(p, <<"2", "4", "h">>) => result[p] = Res("minutes", 1440)
        /\ Parsed(p, <<>>) => Kind(p) = "None"
        /\ Parsed(p, <<"n", "o", "n", "e">>) => Kind(p) = "None"
        /\ Parsed(p, <<"N", "O", "N", "E">>) => Kind(p) = "None"
        /\ Parsed(p, <<"N", "o", "n", "e">>) => Kind(p) = "None"
        /\ Parsed(p, <<"0", "h", "0", "m">>) => Kind(p) = "None"

\* "0h0m" has been parsed after "1h30m"
C27_Witness ==
    /\ calls >= 2
    /\ \E p \in Procs : Parsed(p, <<"0", "h", "0", "m">>) /\ Kind(p) = "None"

\* the d, h and m components of a string as the contract reads them: a number
\* written in decimal digits directly followed by the unit letter, in either
\* letter case; the first one of each unit counts
Digits(str, i, j) == \A k \in i..j : str[k] \in DecimalDigits
UnitAt(str, k, unit) == k <= Len(str) /\ LowerChar(str[k]) = unit
Components(str, unit) ==
    {c \in (1..Len(str)) \X (1..Len(str)) :
        /\ c[1] <= c[2]
        /\ Digits(str, c[1], c[2])
        /\ c[1] = 1 \/ str[c[1] - 1] \notin DecimalDigits
        /\ UnitAt(str, c[2] + 1, unit)}
FirstComponent(str, unit) ==
    CHOOSE c \in Components(str, unit) : \A e \in Components(str, unit) : c[1] <= e[1]
Number(str, c) == IntValue(SubSeq(str, c[1], c[2]))
UnitTotal(str, unit, factor) ==
    IF Components(str, unit) = {} THEN 0
    ELSE Number(str, FirstComponent(str, unit)) * factor
ContractTotal(str) ==
    UnitTotal(str, "d", 1440) + UnitTotal(str, "h", 60) + UnitTotal(str, "m", 1)
HasComponent(str) == \E unit \in {"d", "h", "m"} : Components(str, unit) # {}

\* C28: for every string parse_time_string raises nothing and returns None
\* or an integer > 0; when the string has a d, h or m component the result is
\* days * 1440 + hours * 60 + minutes, or None when that total is 0.
C28_TotalOrNone ==
    \A p \in Procs :
        (Done(p) /\ IsParse(p)) =>
            LET str == call[p].input_data
            IN  /\ Kind(p) \in {"None", "minutes"}
                /\ Kind(p) = "minutes" => result[p].amount > 0
                /\ HasComponent(str) =>
                      IF ContractTotal(str) = 0 THEN Kind(p) = "None"
                      ELSE result[p] = Res("minutes", ContractTotal(str))

\* str.strip() on the characters in use
RECURSIVE Trimmed(_)
Trimmed(str) ==
    IF str = <<>> THEN str
    ELSE IF str[1] = " " THEN Trimmed(Tail(str))
    ELSE IF str[Len(str)] = " " THEN Trimmed(SubSeq(str, 1, Len(str) - 1))
    ELSE str
PlainInteger(str) == Len(str) > 0 /\ Digits(str, 1, Len(str))

\* C29: when the string has no d, h or m component and, with the surrounding
\* whitespace trimmed, is a plain non-negative integer n, parse_time_string
\* returns n when n > 0 and None when n = 0.
C29_PlainMinutes ==
    \A p \in Procs :
        (Done(p) /\ IsParse(p)) =>
            LET str == call[p].input_data
            IN  (~HasComponent(str) /\ PlainInteger(Trimmed(str))) =>
                    IF IntValue(Trimmed(str)) > 0
                    THEN result[p] = Res("minutes", IntValue(Trimmed(str)))
                    ELSE Kind(p) = "None"

IsStart(p) == call[p].op = "start_command"

\* what C31 says of the step in which a /start ends
StartStep ==
    \A p \in OneAtATime :
        (Returns(p) /\ call'[p].op = "start_command") =>
            LET v == call'[p].user_id
                r == call'[p].referrer_id
                before == snap'[p].users
                after == db'.users
            IN  IF before[v].present
                THEN Balances(after) = Balances(before)
                ELSE (r # 0 /\ before[r].present) =>
                        /\ after[r].credits = before[r].credits + 3
                        /\ after[r].total_earned = before[r].total_earned + 3

\* C31: a /start of a new user whose referral link names an existing other
\* user R raises R's credits and total_earned by exactly 3; a /start of a user
\* who is registered changes no balance.
C31_ReferralOnce == [][StartStep]_vars

\* the redeem handler answers the value redeem_code_db returned
Replies(p) == call[p].op = "redeem_code_db" /\ call'[p].op = "handle_inputs"
ReplyFor(kind) == IF kind \in RedeemReplies THEN kind ELSE "error"

\* C35: whatever redeem_code_db returns to the redeem handler (the credited
\* amount, a named rejection or an error), the user is sent the message for
\* that outcome and the conversation state is cleared.
C35_RedeemAnswered ==
    [][\A p \in Procs :
        Replies(p) =>
            LET u == call[p].user_id
            IN  /\ ReplyFor(result[p].kind) \in chat'[u].told
                /\ chat'[u].state = "none"]_vars

\* a service button has just been handled
Pressed(p) == pc[p] = "idle" /\ pc'[p] = "done" /\ call'[p].op = "ask_api_input"
ServiceOf(data) == CHOOSE key \in ServiceKeys : CallbackData(key) = data

\* C40: pressing the button of any of the twelve configured services as a
\* non-banned member puts the user in waiting_for_api_input with api_type
\* equal to that service's key, and the text that follows is looked up
\* under the stored api_type.
C40_ButtonSetsService ==
    [][\A p \in Procs :
        LET u == call'[p].user_id
        IN  /\ (Pressed(p) /\ call'[p].member /\ ~db.users[u].is_banned) =>
                  /\ chat'[u].state = "waiting_for_api_input"
                  /\ chat'[u].api_type = ServiceOf(call'[p].data)
            /\ (pc[p] = "idle" /\ call'[p].op = "process_api_call") =>
                  chat[call'[p].user_id].api_type \in ServiceKeys]_vars

\* the handlers a user runs by sending /start, pressing a button or sending text
UserOps ==
    {"start_command", "ask_api_input", "process_api_call", "redeem_code_db",
     "handle_inputs"}
Ledger(s, u) == <<s.users[u].credits, s.codes, s.logs>>

\* C32: while U is banned, no step of a handler started by U (/start, a
\* service button, a lookup input, a redeem input) changes U's balance, the
\* codes or the redemption records.
C32_BannedRefused ==
    [][\A p \in Procs :
        LET u == call[p].user_id
        IN  (call[p].op \in UserOps /\ snap[p].users[u].is_banned
             /\ db.users[u].is_banned) =>
                Ledger(db', u) = Ledger(db, u)]_vars

CreateReplied(p) == call[p].op = "create_redeem_code" /\ call'[p].op = "handle_inputs"
AsSubmitted(p) ==
    LET row == db.codes[call[p].code]
    IN  /\ row.present
        /\ row.amount = call[p].amount
        /\ row.max_uses = call[p].max_uses
        /\ row.expiry_minutes = call[p].expiry_minutes

\* C34: when create_redeem_code fails in the custom-code or /gencode flow,
\* the admin is told the reason and is not told that the code was created;
\* "Code Created" is reported only if the code exists as submitted.
C34_CreateReported ==
    [][\A p \in Procs :
        CreateReplied(p) =>
            LET u == call[p].user_id
                new == chat'[u].told \ chat[u].told
            IN  /\ result[p].kind = "False" =>
                      "code_created" \notin new /\ "create_failed" \in new
                /\ "code_created" \in new => AsSubmitted(p)]_vars

\* C37: an administrative ledger action asked for from a conversation state
\* (here the creation of a custom code) starts only if the sender is an
\* administrator when the input is processed.
C37_AdminAtInput ==
    [][\A p \in Procs :
        (pc[p] = "idle" /\ call'[p].op = "create_redeem_code"
         /\ call'[p].data = <<"customcode">>) =>
            is_user_admin(db, call'[p].user_id)]_vars

\* a user has just sent /cancel
SentCancel(p) ==
    pc[p] = "idle" /\ pc'[p] = "done" /\ call'[p].data = <<"/cancel">>

\* C36: /cancel sent in any active conversation state clears the state and
\* performs nothing of the pending operation: the store is unchanged and no
\* user is sent a broadcast.
C36_CancelClears ==
    [][\A p \in Procs :
        LET u == call'[p].user_id
        IN  (SentCancel(p) /\ chat[u].state # "none") =>
                /\ chat'[u].state = "none"
                /\ db' = db
                /\ \A v \in UserIds :
                      "broadcast" \notin chat'[v].told \ chat[v].told]_vars

\* the call read a code with an expiry whose created_date cannot be parsed
Unparsed(p) == IsRedeem(p) /\ HasExpiry(p) /\ fromisoformat_raises(CodeRow(p).created_date)

\* C39: for a code with expiry_minutes > 0 whose created_date cannot be
\* parsed, redeem_code_db leaves the expiry check for the updates and, all
\* other checks passing, returns the amount with the effects of a credited
\* redemption, never expired or an error.
C39_UnparsedSkipsExpiry ==
    [][\A p \in Procs :
        (Unparsed(p) /\ Eligible(p)) =>
            /\ (pc[p] = "r_expiry" /\ pc'[p] # pc[p]) => pc'[p] = "r_upd_code"
            /\ (pc[p] # "done" /\ pc'[p] = "done") =>
                  /\ result'[p] = Res("credited", CodeRow(p).amount)
                  /\ RedeemDelta(p)]_vars

\* such a code credited long after any expiry would have passed
C39_Witness ==
    \E p \in Procs :
        /\ Done(p) /\ Unparsed(p) /\ Kind(p) = "credited"
        /\ chk[p] > CodeRow(p).expiry_minutes
        /\ <<call[p].user_id, call[p].code>> \in db.logs

\* the redemption records of a code
RecordsOf(c) == {l \in db.logs : l[2] = c}

\* C38: as long as no user and no code is deleted, every code's current_uses
\* equals the number of its redemption records, and every redemption record
\* names an existing user and an existing code.
C38_UsesMatchRecords ==
    /\ \A c \in CodeIds :
          db.codes[c].present => db.codes[c].current_uses = Cardinality(RecordsOf(c))
    /\ \A l \in db.logs : db.users[l[1]].present /\ db.codes[l[2]].present

\* a code redeemed by two users, and a redemption that ended in an error
\* after its first update
C38_Witness ==
    /\ \E c \in CodeIds : db.codes[c].current_uses = 2 /\ Cardinality(RecordsOf(c)) = 2
    /\ \E p \in Procs :
          /\ Done(p) /\ IsRedeem(p) /\ Kind(p) = "error"
          /\ work[p].codes[call[p].code].current_uses # snap[p].codes[call[p].code].current_uses

====
